---- MODULE Spec2Model ----
(***************************************************************************)
(* A model of web/mixer.js of supertonic-TTS: the VoiceMixer class (its    *)
(* audio buffer, the eleven dsp primitives, the twenty presets) and the    *)
(* helpers applyPreset and getAvailablePresets.                            *)
(*                                                                         *)
(* JavaScript numbers are modelled as fixed-point integers: the integer v  *)
(* stands for the number v / SCALE.  Magnitudes above MAXF stand for the   *)
(* doubles that overflow: PINF and NINF are +Infinity and -Infinity, NAN   *)
(* is NaN and UNDEF is undefined (what reading past the end of an array    *)
(* gives; arithmetic turns it into NaN).  Signed zeros are not told apart. *)
(* Math.sin, Math.tanh and Math.pow(2, s / 12) are computed by rational    *)
(* approximations (SinTurns, MathTanh, Pow2Semitones, Pow2Cents), rounded  *)
(* to the fixed-point grid.  Array indices and lengths are plain integers. *)
(***************************************************************************)
EXTENDS Integers, Sequences, FiniteSets, TLC

(***************************************************************************)
(* Bounds of the model.                                                    *)
(***************************************************************************)
\* The fixed-point unit: the integer SCALE stands for 1.0.
SCALE == 1000
\* The largest finite magnitude (stands for Number.MAX_VALUE).
MAXF == 40000

PINF == MAXF + 1
NINF == 0 - PINF
NAN == MAXF + 2
UNDEF == MAXF + 3

(***************************************************************************)
(* Arithmetic of JavaScript numbers on the fixed-point grid.               *)
(***************************************************************************)
IsNaN(x) == x = NAN \/ x = UNDEF
IsInf(x) == x = PINF \/ x = NINF
IsFinite(x) == ~IsNaN(x) /\ ~IsInf(x)

\* An exact result brought back to the representable range.
Overflow(v) == IF v > MAXF THEN PINF ELSE IF v < 0 - MAXF THEN NINF ELSE v

Sign(x) == IF x > 0 THEN 1 ELSE IF x < 0 THEN 0 - 1 ELSE 0

IAbs(n) == IF n < 0 THEN 0 - n ELSE n

\* n / d for integers, d > 0, rounded to the nearest integer.
RoundDiv(n, d) ==
    IF n >= 0 THEN (n + (d \div 2)) \div d
    ELSE 0 - (((0 - n) + (d \div 2)) \div d)

Neg(a) == IF IsNaN(a) THEN NAN ELSE 0 - a

Add(a, b) ==
    IF IsNaN(a) \/ IsNaN(b) THEN NAN
    ELSE IF IsInf(a) THEN (IF IsInf(b) /\ a # b THEN NAN ELSE a)
    ELSE IF IsInf(b) THEN b
    ELSE Overflow(a + b)

Sub(a, b) == Add(a, Neg(b))

Mul(a, b) ==
    IF IsNaN(a) \/ IsNaN(b) THEN NAN
    ELSE IF IsInf(a) \/ IsInf(b)
         THEN (IF a = 0 \/ b = 0 THEN NAN
               ELSE IF Sign(a) * Sign(b) > 0 THEN PINF ELSE NINF)
    ELSE Overflow(RoundDiv(a * b, SCALE))

Div(a, b) ==
    IF IsNaN(a) \/ IsNaN(b) THEN NAN
    ELSE IF IsInf(a)
         THEN (IF IsInf(b) THEN NAN
               ELSE IF Sign(a) * (IF b < 0 THEN 0 - 1 ELSE 1) > 0 THEN PINF ELSE NINF)
    ELSE IF IsInf(b) THEN 0
    ELSE IF b = 0
         THEN (IF a = 0 THEN NAN ELSE IF a > 0 THEN PINF ELSE NINF)
    ELSE Overflow(Sign(b) * RoundDiv(a * SCALE, IAbs(b)))

\* Math.abs
MathAbs(a) == IF IsNaN(a) THEN NAN ELSE IAbs(a)

\* a > b, false when either is NaN.
Gt(a, b) == ~IsNaN(a) /\ ~IsNaN(b) /\ a > b

\* Math.round on the grid: floor(x + 0.5), onto a multiple of SCALE.
MathRound(a) ==
    IF ~IsFinite(a) THEN (IF IsNaN(a) THEN NAN ELSE a)
    ELSE Overflow(((a + (SCALE \div 2)) \div SCALE) * SCALE)

\* The number n (an integer) on the grid.
Num(n) == Overflow(n * SCALE)

\* The number n / d on the grid (n, d integers, d > 0).
Frac(n, d) == RoundDiv(n * SCALE, d)

(***************************************************************************)
(* Math.sin, Math.tanh, Math.pow as rational approximations on the grid.   *)
(***************************************************************************)
\* Math.sin(2 * Math.PI * u) for u turns (u on the grid, finite), by
\* Bhaskara's formula sin(x) ~ 16 x (pi - x) / (5 pi^2 - 4 x (pi - x)), which is
\* exact at the multiples of a quarter turn and within 0.002 elsewhere.
SinTurns(u) ==
    LET r == u % SCALE
        neg == 2 * r > SCALE
        h == IF neg THEN 2 * r - SCALE ELSE 2 * r
        q == RoundDiv(h * (SCALE - h), SCALE)
        v == RoundDiv(16 * q * SCALE, 5 * SCALE - 4 * q)
    IN IF neg THEN 0 - v ELSE v

\* Math.tanh(x), by the Pade approximant x (27 + x^2) / (27 + 9 x^2) on
\* |x| < 3 and +-1 beyond (Math.tanh itself returns exactly +-1 for large |x|).
MathTanh(x) ==
    IF IsNaN(x) THEN NAN
    ELSE IF x >= 3 * SCALE THEN SCALE
    ELSE IF x <= 0 - 3 * SCALE THEN 0 - SCALE
    ELSE LET x2 == RoundDiv(x * x, SCALE)
         IN RoundDiv(x * (27 * SCALE + x2), 27 * SCALE + 9 * x2)

\* 2^(k/12) for k = 0 .. 11, in thousandths.
SemitoneTable ==
    <<1000, 1059, 1122, 1189, 1260, 1335, 1414, 1498, 1587, 1682, 1782, 1888>>

\* Math.pow(2, s / 12) for a whole number s of semitones, kept as mantissa
\* (on the grid, in [1, 2)) and binary exponent: the ratio is mant * 2^exp.
Pow2Semitones(s) ==
    [mant |-> Frac(SemitoneTable[(s % 12) + 1], 1000),
     exp |-> (s - (s % 12)) \div 12]

\* Math.pow(2, x / 12) for a small fraction x of a semitone (x on the grid,
\* |x| < 1): 1 + x ln(2) / 12, with ln(2) / 12 = 0.05776.
Pow2Cents(x) == SCALE + RoundDiv(x * 5776, 100000)

\* Math.pow(b, n) for a whole n >= 0, by repeated multiplication.
RECURSIVE MathPow(_, _)
MathPow(b, n) == IF n <= 0 THEN SCALE ELSE Mul(b, MathPow(b, n - 1))

\* 2^n for a whole n in 0 .. 30.
RECURSIVE P2(_)
P2(n) == IF n <= 0 THEN 1 ELSE 2 * P2(n - 1)

(***************************************************************************)
(* Arrays.  A JavaScript array is a sequence; index i of the code is       *)
(* position i + 1 of the sequence.                                         *)
(***************************************************************************)
\* a[i]: undefined outside the array.
At(a, i) == IF i >= 0 /\ i < Len(a) THEN a[i + 1] ELSE UNDEF

\* The array of length n whose element i is F(i).
NewArray(n, F(_)) == LET f == [k \in 1..n |-> F(k - 1)] IN SubSeq(f, 1, n)

IMin(a, b) == IF a < b THEN a ELSE b

\* Math.max(...a.map(Math.abs)): -Infinity for the empty array, NaN when any
\* element is NaN or undefined.
RECURSIVE MaxAbsIn(_, _, _)
MaxAbsIn(a, lo, hi) ==
    IF lo = hi THEN MathAbs(a[lo])
    ELSE LET mid == (lo + hi) \div 2
             l == MaxAbsIn(a, lo, mid)
             r == MaxAbsIn(a, mid + 1, hi)
         IN IF IsNaN(l) \/ IsNaN(r) THEN NAN ELSE IF l >= r THEN l ELSE r

MaxAbs(a) == IF Len(a) = 0 THEN NINF ELSE MaxAbsIn(a, 1, Len(a))

\* The loop "for (i...) a[i] /= maxVal".
Scaled(a, maxVal) == NewArray(Len(a), LAMBDA i : Div(At(a, i), maxVal))

\* The largest element of a, signs kept (Math.max(...a)), for a non-empty a
\* of finite numbers.
RECURSIVE MaxIn(_, _, _)
MaxIn(a, lo, hi) ==
    IF lo = hi THEN a[lo]
    ELSE LET mid == (lo + hi) \div 2
             l == MaxIn(a, lo, mid)
             r == MaxIn(a, mid + 1, hi)
         IN IF l >= r THEN l ELSE r

\* A normalization that takes the peak without Math.abs: the variant the
\* bound on the output rules out.
NormalizeAboveOneSigned(a) ==
    LET maxVal == IF Len(a) = 0 THEN NINF ELSE MaxIn(a, 1, Len(a))
    IN IF Gt(maxVal, SCALE) THEN Scaled(a, maxVal) ELSE a

\* "if (maxVal > 1.0) a[i] /= maxVal" of dspEcho, dspReverb and dspChorus.
NormalizeAboveOne(a) ==
    LET maxVal == MaxAbs(a)
    IN IF Gt(maxVal, SCALE) THEN Scaled(a, maxVal) ELSE a

\* a[idx] * (1 - frac) + a[idx + 1] * frac
Lerp(a, idx, frac) ==
    Add(Mul(At(a, idx), SCALE - frac), Mul(At(a, idx + 1), frac))

\* The read at a fractional position pos (on the grid) that dspVibrato,
\* dspJitter and dspChorus share: interpolated inside the array, the last
\* sample at its end, and no contribution (NONE) outside.
NONE == MAXF + 4
ReadAt(a, pos) ==
    LET idx == pos \div SCALE
        frac == pos % SCALE
    IN IF idx >= 0 /\ idx + 1 < Len(a) THEN Lerp(a, idx, frac)
       ELSE IF idx >= 0 /\ idx < Len(a) THEN At(a, idx)
       ELSE NONE

\* "new Array(n)" throws a RangeError unless n is a whole number in
\* 0 .. 2^32 - 1.  INVALID stands for every other length (negative, NaN,
\* Infinity, 2^32 and more).
ArrayLimitLog2 == 32
INVALID == 0 - 1

(***************************************************************************)
(* resample                                                                *)
(***************************************************************************)
\* A resample that interpolates towards the first sample at the end of the
\* input instead of holding the last one.
resampleWrapping(input, newLength) ==
    NewArray(newLength, LAMBDA i :
        LET idx == (i * Len(input)) \div newLength
            frac == Frac((i * Len(input)) % newLength, newLength)
        IN IF idx + 1 < Len(input) THEN Lerp(input, idx, frac)
           ELSE Add(Mul(At(input, idx), SCALE - frac), Mul(At(input, 0), frac)))

\* resample(input, newLength) for a valid newLength.  The source position of
\* output index i is i * (input.length / newLength), taken exactly.
resample(input, newLength) ==
    NewArray(newLength, LAMBDA i :
        LET idx == (i * Len(input)) \div newLength
            frac == Frac((i * Len(input)) % newLength, newLength)
        IN IF idx + 1 < Len(input) THEN Lerp(input, idx, frac)
           ELSE At(input, idx))

\* The input indices resample reads for output index i: idx, and idx + 1
\* when it interpolates.
ResampleReads(input, newLength, i) ==
    LET idx == (i * Len(input)) \div newLength
    IN IF idx + 1 < Len(input) THEN {idx, idx + 1} ELSE {idx}

(***************************************************************************)
(* Results of a method body: the new array, or an exception thrown.        *)
(***************************************************************************)
Ok(b) == [threw |-> FALSE, buf |-> b]
Throw == [threw |-> TRUE, buf |-> <<>>]

(***************************************************************************)
(* dspPitchShift / pitchShiftSimple                                        *)
(***************************************************************************)
\* Math.floor(n / ratio) for a whole n >= 0 and ratio = mant * 2^exp, or
\* INVALID when it is 2^32 or more.  (Between the lengths the model can build
\* and 2^32 the operator is left undefined: no input of the model gets there.)
FloorDivRatio(n, r) ==
    IF n = 0 THEN 0
    ELSE IF r.exp >= 0
         THEN (IF r.exp > 20 THEN 0 ELSE (n * SCALE) \div (r.mant * P2(r.exp)))
    ELSE IF 0 - r.exp >= ArrayLimitLog2
            /\ n * SCALE * P2(0 - r.exp - ArrayLimitLog2) >= r.mant
         THEN INVALID
    ELSE (n * P2(0 - r.exp) * SCALE) \div r.mant

\* Math.floor(n * ratio) for a whole n >= 0 and ratio = mant * 2^exp, or
\* INVALID when it is 2^32 or more.
FloorMulRatio(n, r) ==
    IF n = 0 THEN 0
    ELSE IF r.exp < 0
         THEN (IF 0 - r.exp > 20 THEN 0
               ELSE (n * r.mant) \div (SCALE * P2(0 - r.exp)))
    ELSE IF r.exp <= 8 THEN (n * r.mant * P2(r.exp)) \div SCALE
    ELSE IF r.exp >= ArrayLimitLog2 THEN INVALID
    ELSE IF r.exp > 10 /\ n * r.mant >= SCALE * P2(ArrayLimitLog2 - r.exp)
         THEN INVALID
    ELSE (n * r.mant * P2(r.exp)) \div SCALE

ShortLimit == 4096
windowSize == 2048
hopSize == windowSize \div 4

\* hanningWindow(size)[i] = 0.5 * (1 - cos(2 pi i / (size - 1))), the cosine
\* taken as the sine a quarter turn later.
hanningWindow(size) ==
    NewArray(size, LAMBDA i :
        RoundDiv(SCALE - SinTurns(Frac(i, size - 1) + Frac(1, 4)), 2))

\* A short path that returns the resampled array as it is, neither padded
\* nor truncated: the variant the length property rules out.
PitchShiftShortUnpadded(input, ratio) ==
    LET newLength == FloorDivRatio(Len(input), ratio)
    IN IF newLength = INVALID THEN Throw ELSE Ok(resample(input, newLength))

\* A short path that peak-normalizes its output as the long path does.
PitchShiftShortNormalized(input, ratio) ==
    LET newLength == FloorDivRatio(Len(input), ratio)
    IN IF newLength = INVALID THEN Throw
       ELSE LET resampled == resample(input, newLength)
                output == NewArray(Len(input), LAMBDA i :
                              IF i < IMin(Len(resampled), Len(input))
                              THEN At(resampled, i) ELSE 0)
                maxVal == MaxAbs(output)
            IN Ok(IF Gt(maxVal, 0) THEN Scaled(output, maxVal) ELSE output)

\* The short path of pitchShiftSimple (input.length < 4096).
PitchShiftShort(input, ratio) ==
    LET newLength == FloorDivRatio(Len(input), ratio)
    IN IF newLength = INVALID THEN Throw
       ELSE LET resampled == resample(input, newLength)
            IN Ok(NewArray(Len(input), LAMBDA i :
                   IF i < IMin(Len(resampled), Len(input))
                   THEN At(resampled, i) ELSE 0))

\* A write loop that adds the whole resampled frame, wherever it lands.
FrameWriteCountUnclamped(resampledLen, outputLen, outPos) == resampledLen

\* "j < Math.min(resampled.length, output.length - outPos)": the number of
\* samples a frame adds into output (none when it is 0 or less).
FrameWriteCount(resampledLen, outputLen, outPos) ==
    IMin(resampledLen, outputLen - outPos)

\* Math.min(Math.floor(j / ratio), windowSize - 1)
WindowIdx(j, ratio) == IMin(FloorDivRatio(j, ratio), windowSize - 1)

\* One pass of the frame loop: the frame at i, windowed, resampled to newSize
\* and added into output from outPos on.
OverlapAddFrame(input, ratio, window, newSize, i, output) ==
    LET frame == NewArray(windowSize, LAMBDA j :
                     Mul(At(input, i + j), At(window, j)))
        resampled == resample(frame, newSize)
        outPos == FloorMulRatio(i, ratio)
        n == FrameWriteCount(Len(resampled), Len(output), outPos)
    IN NewArray(Len(output), LAMBDA k :
           LET j == k - outPos
           IN IF j >= 0 /\ j < n
              THEN Add(At(output, k),
                       Mul(At(resampled, j), At(window, WindowIdx(j, ratio))))
              ELSE At(output, k))

RECURSIVE OverlapAdd(_, _, _, _, _, _)
OverlapAdd(input, ratio, window, newSize, i, output) ==
    IF i < Len(input) - windowSize
    THEN OverlapAdd(input, ratio, window, newSize, i + hopSize,
                    OverlapAddFrame(input, ratio, window, newSize, i, output))
    ELSE output

\* A peak normalization without the test of the peak: 0 / 0 on silence.
NormalizeToPeakUnguarded(a) == Scaled(a, MaxAbs(a))

\* "if (maxVal > 0) output[i] /= maxVal" of the long path.
NormalizeToPeak(a) ==
    LET maxVal == MaxAbs(a)
    IN IF Gt(maxVal, 0) THEN Scaled(a, maxVal) ELSE a

\* The long path of pitchShiftSimple (input.length >= 4096).  The first frame
\* already throws when floor(windowSize * ratio) is no array length.
PitchShiftLong(input, ratio) ==
    LET newSize == FloorMulRatio(windowSize, ratio)
    IN IF 0 < Len(input) - windowSize /\ newSize = INVALID THEN Throw
       ELSE Ok(NormalizeToPeak(
                OverlapAdd(input, ratio, hanningWindow(windowSize), newSize, 0,
                           NewArray(Len(input), LAMBDA k : 0))))

pitchShiftSimple(input, ratio) ==
    IF Len(input) < ShortLimit THEN PitchShiftShort(input, ratio)
    ELSE PitchShiftLong(input, ratio)

\* The body of dspPitchShift past its guard.
PitchShift(buf, semitones) == pitchShiftSimple(buf, Pow2Semitones(semitones))

(***************************************************************************)
(* The other primitives, as functions of the buffer, the sample rate sr    *)
(* (a whole number) and the parameters.  rate, depth, decay, roomSize,     *)
(* damping, amount, drive and shift are on the grid; delayMs, spread,      *)
(* repeats, voices and levels are whole numbers.                           *)
(***************************************************************************)
\* A tremolo whose factor swings around 1: 1 + depth * sin(2 pi rate i / sr).
TremoloBipolar(buf, sr, rate, depth) ==
    NewArray(Len(buf), LAMBDA i :
        Mul(At(buf, i),
            Add(SCALE, Mul(depth, SinTurns(RoundDiv(rate * i, sr))))))

\* dspTremolo: buf[i] *= 1 + depth * (sin(2 pi rate i / sr) - 1) / 2
Tremolo(buf, sr, rate, depth) ==
    NewArray(Len(buf), LAMBDA i :
        LET s == SinTurns(RoundDiv(rate * i, sr))
            modulation == Add(SCALE, Div(Mul(depth, Sub(s, SCALE)), Num(2)))
        IN Mul(At(buf, i), modulation))

\* Math.floor(sr * ms / 1000)
DelaySamples(sr, ms) == (sr * ms) \div 1000

\* A repeat that reads the accumulator instead of the buffer, so that the
\* echoes of the earlier repeats are echoed again.
EchoRepeatFeedback(buf, output, offset, gain) ==
    NewArray(Len(output), LAMBDA k :
        IF k - offset >= 0 /\ k - offset < Len(buf)
        THEN Add(At(output, k), Mul(At(output, k - offset), gain))
        ELSE At(output, k))

\* One repeat of dspEcho: output[i + offset] += buf[i] * gain for the i with
\* i + offset < output.length (a negative index is no element).
EchoRepeat(buf, output, offset, gain) ==
    NewArray(Len(output), LAMBDA k :
        IF k - offset >= 0 /\ k - offset < Len(buf)
        THEN Add(At(output, k), Mul(At(buf, k - offset), gain))
        ELSE At(output, k))

RECURSIVE EchoRepeats(_, _, _, _, _, _)
EchoRepeats(buf, output, delaySamples, decay, rep, repeats) ==
    IF rep <= repeats
    THEN EchoRepeats(buf,
                     EchoRepeat(buf, output, delaySamples * rep, MathPow(decay, rep)),
                     delaySamples, decay, rep + 1, repeats)
    ELSE output

\* dspEcho before its normalization: the accumulator after all repeats.
EchoAccumulate(buf, sr, delayMs, decay, repeats) ==
    EchoRepeats(buf, buf, DelaySamples(sr, delayMs), decay, 1, repeats)

Echo(buf, sr, delayMs, decay, repeats) ==
    NormalizeAboveOne(EchoAccumulate(buf, sr, delayMs, decay, repeats))

\* The delay taps of dspReverb, in milliseconds.
ReverbDelays == <<37, 53, 73, 97, 113, 131, 149, 167>>

\* Math.floor(sr * delayMs / 1000 * roomSize), roomSize >= 0 on the grid.
ReverbDelaySamples(sr, delayMs, roomSize) ==
    LET a == sr * delayMs
        whole == (a \div 1000) * roomSize
    IN (whole \div SCALE)
       + ((whole % SCALE) * 1000 + (a % 1000) * roomSize) \div (1000 * SCALE)

RECURSIVE ReverbTaps(_, _, _, _, _, _)
ReverbTaps(buf, output, sr, roomSize, damping, t) ==
    IF t <= Len(ReverbDelays)
    THEN LET delaySamples == ReverbDelaySamples(sr, ReverbDelays[t], roomSize)
             gain == Div(Mul(Frac(3, 10), roomSize), Num(Len(ReverbDelays)))
         IN ReverbTaps(buf,
                NewArray(Len(output), LAMBDA k :
                    IF k - delaySamples >= 0 /\ k - delaySamples < Len(buf)
                    THEN Add(At(output, k),
                             Mul(Mul(At(buf, k - delaySamples), gain),
                                 Sub(SCALE, damping)))
                    ELSE At(output, k)),
                sr, roomSize, damping, t + 1)
    ELSE output

\* A reverb without taps: the copy of the buffer, nothing added.
ReverbDry(buf, sr, roomSize, damping) == buf

ReverbAccumulate(buf, sr, roomSize, damping) ==
    ReverbTaps(buf, buf, sr, roomSize, damping, 1)

Reverb(buf, sr, roomSize, damping) ==
    NormalizeAboveOne(ReverbAccumulate(buf, sr, roomSize, damping))

\* A sharpen that writes into the buffer it reads: sample i is computed from
\* the already sharpened sample i - 1.
RECURSIVE SharpenInPlaceFrom(_, _, _)
SharpenInPlaceFrom(buf, amount, i) ==
    IF i >= Len(buf) - 1 THEN buf
    ELSE LET highFreq == Sub(At(buf, i),
                             Div(Add(At(buf, i - 1), At(buf, i + 1)), Num(2)))
         IN SharpenInPlaceFrom(
                [buf EXCEPT ![i + 1] = Add(At(buf, i), Mul(highFreq, amount))],
                amount, i + 1)

SharpenInPlace(buf, amount) == SharpenInPlaceFrom(buf, amount, 1)

\* dspSharpen: the interior samples get amount times their distance from the
\* mean of their neighbours, all read from the buffer before the call.
Sharpen(buf, amount) ==
    NewArray(Len(buf), LAMBDA i :
        IF i >= 1 /\ i < Len(buf) - 1
        THEN LET highFreq == Sub(At(buf, i),
                                 Div(Add(At(buf, i - 1), At(buf, i + 1)), Num(2)))
             IN Add(At(buf, i), Mul(highFreq, amount))
        ELSE At(buf, i))

\* A quantizer that takes Math.floor instead of Math.round.
QuantizeFloor(buf, levels) ==
    NewArray(Len(buf), LAMBDA i :
        LET x == Mul(At(buf, i), Num(levels))
        IN Div(IF IsFinite(x) THEN (x \div SCALE) * SCALE ELSE x, Num(levels)))

\* dspQuantize: Math.round(buf[i] * levels) / levels
Quantize(buf, levels) ==
    NewArray(Len(buf), LAMBDA i :
        Div(MathRound(Mul(At(buf, i), Num(levels))), Num(levels)))

\* dspVibrato: the read at i + depth * 0.1 * sin(2 pi rate i / sr), 0 outside.
Vibrato(buf, sr, rate, depth) ==
    NewArray(Len(buf), LAMBDA i :
        LET depthSamples == Mul(depth, Frac(1, 10))
            modulation == Mul(depthSamples, SinTurns(RoundDiv(rate * i, sr)))
            v == ReadAt(buf, i * SCALE + modulation)
        IN IF v = NONE THEN 0 ELSE v)

\* dspJitter.  jitterWindow is its windowSize (512); window w starts at
\* w * 256 and draws[w + 1] is its Math.random(), in [0, 1) on the grid.
jitterWindow == 512
JitterRatio(amount, random) ==
    Pow2Cents(Mul(Mul(Sub(random, Frac(1, 2)), amount), Num(2)))

\* What window w adds to output index k (NONE when it adds nothing).
JitterRead(buf, amount, draws, w, k) ==
    LET i == w * (jitterWindow \div 2)
        j == k - i
    IN IF w >= 0 /\ j >= 0 /\ j < jitterWindow
       THEN ReadAt(buf, i * SCALE + j * JitterRatio(amount, draws[w + 1]))
       ELSE NONE

AddRead(acc, v) == IF v = NONE THEN acc ELSE Add(acc, v)

\* A jitter whose windows do not overlap: each output sample is read once,
\* by the window that starts at or before it.
JitterNoOverlap(buf, amount, draws) ==
    NewArray(Len(buf), LAMBDA k :
        AddRead(0, JitterRead(buf, amount, draws,
                              k \div (jitterWindow \div 2), k)))

Jitter(buf, amount, draws) ==
    NewArray(Len(buf), LAMBDA k :
        LET w == k \div (jitterWindow \div 2)
        IN AddRead(AddRead(0, JitterRead(buf, amount, draws, w - 1, k)),
                   JitterRead(buf, amount, draws, w, k)))

\* The number of Math.random() calls of dspJitter on a buffer of length n.
JitterWindows(n) == (n + (jitterWindow \div 2) - 1) \div (jitterWindow \div 2)

\* Math.floor(length / shift) of dspFormantShift, INVALID when it is no array
\* length (shift = 0 gives Infinity or NaN, shift < 0 a negative length).
FormantLength(n, shift) ==
    IF shift > 0 THEN (n * SCALE) \div shift
    ELSE IF shift < 0 /\ n = 0 THEN 0
    ELSE INVALID

\* The body of dspFormantShift past its guard.
FormantShift(buf, shift) ==
    LET newLength == FormantLength(Len(buf), shift)
    IN IF newLength = INVALID THEN Throw
       ELSE Ok(resample(resample(buf, newLength), Len(buf)))

\* One voice v of dspChorus added into output.
ChorusVoice(buf, output, maxDelay, voices, v) ==
    LET delay == (maxDelay * v) \div voices
        detune == Pow2Cents(RoundDiv((2 * v - voices) * SCALE, 20))
        gain == Frac(1, voices)
    IN NewArray(Len(output), LAMBDA i :
           LET r == ReadAt(buf, (i - delay) * detune)
           IN IF r = NONE THEN At(output, i)
              ELSE Add(At(output, i), Mul(r, gain)))

\* A voice loop that runs while v <= voices: one voice more.
RECURSIVE ChorusVoicesInclusive(_, _, _, _, _)
ChorusVoicesInclusive(buf, output, maxDelay, voices, v) ==
    IF v <= voices
    THEN ChorusVoicesInclusive(buf, ChorusVoice(buf, output, maxDelay, voices, v),
                               maxDelay, voices, v + 1)
    ELSE output

RECURSIVE ChorusVoices(_, _, _, _, _)
ChorusVoices(buf, output, maxDelay, voices, v) ==
    IF v < voices
    THEN ChorusVoices(buf, ChorusVoice(buf, output, maxDelay, voices, v),
                      maxDelay, voices, v + 1)
    ELSE output

ChorusAccumulate(buf, sr, voices, spread) ==
    ChorusVoices(buf, buf, DelaySamples(sr, spread), voices, 1)

Chorus(buf, sr, voices, spread) ==
    NormalizeAboveOne(ChorusAccumulate(buf, sr, voices, spread))

\* dspDistortion: Math.tanh(buf[i] * drive * 50)
Distortion(buf, drive) ==
    LET amount == Mul(drive, Num(50))
    IN NewArray(Len(buf), LAMBDA i : MathTanh(Mul(At(buf, i), amount)))

(***************************************************************************)
(* The methods of VoiceMixer.  A method gets whether audioBuffer is set    *)
(* (hasBuf) and the array it refers to (buf), and gives what it does to    *)
(* them: nothing (NoOp), a write into that very array (InPlace), the       *)
(* assignment of a new array to this.audioBuffer (Replace), or an          *)
(* exception (Thrown).  Every method that completes returns this.          *)
(***************************************************************************)
NoOp == [kind |-> "noop", buf |-> <<>>]
InPlace(b) == [kind |-> "inplace", buf |-> b]
Replace(b) == [kind |-> "replace", buf |-> b]
Thrown == [kind |-> "throw", buf |-> <<>>]

FromResult(r) == IF r.threw THEN Thrown ELSE Replace(r.buf)

\* A dspPitchShift without the null check: it fails on this.audioBuffer.length.
dspPitchShiftUnguarded(hasBuf, buf, sr, semitones) ==
    IF semitones = 0 THEN NoOp
    ELSE IF ~hasBuf THEN Thrown
    ELSE FromResult(PitchShift(buf, semitones))

\* A dspPitchShift without the early return at 0 semitones.
dspPitchShiftAlways(hasBuf, buf, sr, semitones) ==
    IF ~hasBuf THEN NoOp ELSE FromResult(PitchShift(buf, semitones))

dspPitchShift(hasBuf, buf, sr, semitones) ==
    IF semitones = 0 \/ ~hasBuf THEN NoOp
    ELSE FromResult(PitchShift(buf, semitones))

dspTremolo(hasBuf, buf, sr, rate, depth) ==
    IF ~hasBuf THEN NoOp ELSE InPlace(Tremolo(buf, sr, rate, depth))

dspEcho(hasBuf, buf, sr, delayMs, decay, repeats) ==
    IF ~hasBuf THEN NoOp ELSE Replace(Echo(buf, sr, delayMs, decay, repeats))

dspReverb(hasBuf, buf, sr, roomSize, damping) ==
    IF ~hasBuf THEN NoOp ELSE Replace(Reverb(buf, sr, roomSize, damping))

dspSharpen(hasBuf, buf, sr, amount) ==
    IF ~hasBuf THEN NoOp ELSE Replace(Sharpen(buf, amount))

dspQuantize(hasBuf, buf, sr, levels) ==
    IF ~hasBuf THEN NoOp ELSE InPlace(Quantize(buf, levels))

dspVibrato(hasBuf, buf, sr, rate, depth) ==
    IF ~hasBuf THEN NoOp ELSE Replace(Vibrato(buf, sr, rate, depth))

dspJitter(hasBuf, buf, sr, amount, draws) ==
    IF ~hasBuf THEN NoOp ELSE Replace(Jitter(buf, amount, draws))

dspFormantShift(hasBuf, buf, sr, shift) ==
    IF shift = SCALE \/ ~hasBuf THEN NoOp
    ELSE FromResult(FormantShift(buf, shift))

dspChorus(hasBuf, buf, sr, voices, spread) ==
    IF ~hasBuf THEN NoOp ELSE Replace(Chorus(buf, sr, voices, spread))

dspDistortion(hasBuf, buf, sr, drive) ==
    IF ~hasBuf THEN NoOp ELSE InPlace(Distortion(buf, drive))

\* A call in a chain: the method's name and its arguments (0 where it has
\* fewer than three).
Step(op, a, b, c) == [a |-> a, b |-> b, op |-> op, c |-> c]

\* The method call a step stands for; draws are the values Math.random()
\* returns during it.
Method(st, hasBuf, buf, sr, draws) ==
    CASE st.op = "dspPitchShift" -> dspPitchShift(hasBuf, buf, sr, st.a)
      [] st.op = "dspTremolo" -> dspTremolo(hasBuf, buf, sr, st.a, st.b)
      [] st.op = "dspEcho" -> dspEcho(hasBuf, buf, sr, st.a, st.b, st.c)
      [] st.op = "dspReverb" -> dspReverb(hasBuf, buf, sr, st.a, st.b)
      [] st.op = "dspSharpen" -> dspSharpen(hasBuf, buf, sr, st.a)
      [] st.op = "dspQuantize" -> dspQuantize(hasBuf, buf, sr, st.a)
      [] st.op = "dspVibrato" -> dspVibrato(hasBuf, buf, sr, st.a, st.b)
      [] st.op = "dspJitter" -> dspJitter(hasBuf, buf, sr, st.a, draws)
      [] st.op = "dspFormantShift" -> dspFormantShift(hasBuf, buf, sr, st.a)
      [] st.op = "dspChorus" -> dspChorus(hasBuf, buf, sr, st.a, st.b)
      [] st.op = "dspDistortion" -> dspDistortion(hasBuf, buf, sr, st.a)

(***************************************************************************)
(* A chain this.m1(..).m2(..)... on one mixer.  The chain state holds the  *)
(* array audioBuffer refers to now (cur), the array it referred to when    *)
(* the chain began (orig, which in-place methods keep writing until the    *)
(* first Replace), whether audioBuffer was reassigned, and whether a       *)
(* method threw (the rest of the chain is then not run).                   *)
(***************************************************************************)
ChainStart(hasBuf, buf) ==
    [hasBuf |-> hasBuf, cur |-> buf, orig |-> buf,
     replaced |-> FALSE, threw |-> FALSE]

\* A chain in which a method that fails has already emptied the buffer.
ChainStepClearing(c, out) ==
    CASE out.kind = "noop" -> c
      [] out.kind = "inplace" ->
            [c EXCEPT !.cur = out.buf,
                      !.orig = IF c.replaced THEN c.orig ELSE out.buf]
      [] out.kind = "replace" -> [c EXCEPT !.cur = out.buf, !.replaced = TRUE]
      [] out.kind = "throw" ->
            [c EXCEPT !.threw = TRUE, !.cur = <<>>, !.replaced = TRUE]

ChainStep(c, out) ==
    CASE out.kind = "noop" -> c
      [] out.kind = "inplace" ->
            [c EXCEPT !.cur = out.buf,
                      !.orig = IF c.replaced THEN c.orig ELSE out.buf]
      [] out.kind = "replace" -> [c EXCEPT !.cur = out.buf, !.replaced = TRUE]
      [] out.kind = "throw" -> [c EXCEPT !.threw = TRUE]

\* A chain of which only the last method runs.
RunChainLastOnly(steps, k, c, sr, draws) ==
    IF Len(steps) = 0 THEN c
    ELSE ChainStep(c, Method(steps[Len(steps)], c.hasBuf, c.cur, sr, draws))

RECURSIVE RunChain(_, _, _, _, _)
RunChain(steps, k, c, sr, draws) ==
    IF k > Len(steps) \/ c.threw THEN c
    ELSE RunChain(steps, k + 1,
                  ChainStep(c, Method(steps[k], c.hasBuf, c.cur, sr, draws)),
                  sr, draws)

(***************************************************************************)
(* The presets: each method body is a fixed chain of primitive calls.      *)
(***************************************************************************)
presetOperaSinging ==
    <<Step("dspVibrato", Frac(55, 10), Frac(8, 10), 0),
      Step("dspReverb", Frac(7, 10), Frac(3, 10), 0),
      Step("dspSharpen", Frac(2, 10), 0, 0)>>

presetPopSinging ==
    <<Step("dspVibrato", Frac(45, 10), Frac(4, 10), 0),
      Step("dspChorus", 3, 15, 0),
      Step("dspEcho", 150, Frac(3, 10), 2),
      Step("dspSharpen", Frac(25, 100), 0, 0)>>

presetJazzSinging ==
    <<Step("dspVibrato", Num(4), Frac(3, 10), 0),
      Step("dspReverb", Frac(4, 10), Frac(4, 10), 0),
      Step("dspEcho", 120, Frac(2, 10), 1)>>

presetRockSinging ==
    <<Step("dspDistortion", Frac(3, 10), 0, 0),
      Step("dspVibrato", Num(6), Frac(5, 10), 0),
      Step("dspEcho", 180, Frac(4, 10), 2),
      Step("dspSharpen", Frac(4, 10), 0, 0)>>

presetGospelSinging ==
    <<Step("dspVibrato", Num(6), Frac(9, 10), 0),
      Step("dspReverb", Frac(6, 10), Frac(35, 100), 0),
      Step("dspTremolo", Num(4), Frac(2, 10), 0),
      Step("dspSharpen", Frac(3, 10), 0, 0)>>

presetCountrySinging ==
    <<Step("dspFormantShift", Frac(11, 10), 0, 0),
      Step("dspVibrato", Num(5), Frac(4, 10), 0),
      Step("dspEcho", 100, Frac(25, 100), 2),
      Step("dspSharpen", Frac(35, 100), 0, 0)>>

presetRapVocal ==
    <<Step("dspChorus", 2, 10, 0),
      Step("dspEcho", 80, Frac(2, 10), 1),
      Step("dspSharpen", Frac(3, 10), 0, 0)>>

presetEDMVocal ==
    <<Step("dspChorus", 4, 25, 0),
      Step("dspEcho", 100, Frac(5, 10), 3),
      Step("dspVibrato", Num(6), Frac(3, 10), 0),
      Step("dspSharpen", Frac(4, 10), 0, 0)>>

presetChipmunk ==
    <<Step("dspPitchShift", 8, 0, 0),
      Step("dspFormantShift", Frac(13, 10), 0, 0),
      Step("dspTremolo", Num(8), Frac(3, 10), 0)>>

presetMonster ==
    <<Step("dspPitchShift", 0 - 7, 0, 0),
      Step("dspFormantShift", Frac(7, 10), 0, 0),
      Step("dspDistortion", Frac(2, 10), 0, 0),
      Step("dspReverb", Frac(5, 10), Frac(6, 10), 0)>>

presetRobot ==
    <<Step("dspQuantize", 12, 0, 0),
      Step("dspEcho", 50, Frac(3, 10), 2),
      Step("dspFormantShift", Frac(95, 100), 0, 0)>>

presetAlien ==
    <<Step("dspPitchShift", 4, 0, 0),
      Step("dspFormantShift", Frac(14, 10), 0, 0),
      Step("dspJitter", Frac(3, 10), 0, 0),
      Step("dspReverb", Frac(6, 10), Frac(4, 10), 0),
      Step("dspTremolo", Num(12), Frac(4, 10), 0)>>

presetCave ==
    <<Step("dspPitchShift", 0 - 2, 0, 0),
      Step("dspReverb", Frac(8, 10), Frac(3, 10), 0),
      Step("dspEcho", 300, Frac(6, 10), 4)>>

presetTelephone ==
    <<Step("dspFormantShift", Frac(11, 10), 0, 0),
      Step("dspDistortion", Frac(15, 100), 0, 0),
      Step("dspQuantize", 20, 0, 0)>>

presetEthereal ==
    <<Step("dspPitchShift", 3, 0, 0),
      Step("dspChorus", 5, 30, 0),
      Step("dspReverb", Frac(7, 10), Frac(2, 10), 0),
      Step("dspVibrato", Num(3), Frac(2, 10), 0)>>

presetUnderwater ==
    <<Step("dspPitchShift", 0 - 1, 0, 0),
      Step("dspReverb", Frac(6, 10), Frac(8, 10), 0),
      Step("dspTremolo", Num(2), Frac(4, 10), 0),
      Step("dspFormantShift", Frac(85, 100), 0, 0)>>

presetGiant ==
    <<Step("dspPitchShift", 0 - 5, 0, 0),
      Step("dspFormantShift", Frac(75, 100), 0, 0),
      Step("dspReverb", Frac(5, 10), Frac(4, 10), 0),
      Step("dspEcho", 200, Frac(3, 10), 2)>>

presetCartoon ==
    <<Step("dspPitchShift", 5, 0, 0),
      Step("dspFormantShift", Frac(125, 100), 0, 0),
      Step("dspJitter", Frac(2, 10), 0, 0),
      Step("dspTremolo", Num(10), Frac(25, 100), 0)>>

presetOldRadio ==
    <<Step("dspQuantize", 8, 0, 0),
      Step("dspDistortion", Frac(25, 100), 0, 0),
      Step("dspFormantShift", Frac(105, 100), 0, 0),
      Step("dspEcho", 80, Frac(2, 10), 1)>>

\* A whisper preset that ends with a dspJitter call.
presetWhisperJittered ==
    <<Step("dspDistortion", Frac(4, 10), 0, 0),
      Step("dspTremolo", Num(20), Frac(6, 10), 0),
      Step("dspSharpen", Frac(6, 10), 0, 0),
      Step("dspJitter", Frac(1, 10), 0, 0)>>

presetWhisper ==
    <<Step("dspDistortion", Frac(4, 10), 0, 0),
      Step("dspTremolo", Num(20), Frac(6, 10), 0),
      Step("dspSharpen", Frac(6, 10), 0, 0)>>

\* The methods of a VoiceMixer whose name starts with "preset".
PresetMethods ==
    {"presetOperaSinging", "presetPopSinging", "presetJazzSinging",
     "presetRockSinging", "presetGospelSinging", "presetCountrySinging",
     "presetRapVocal", "presetEDMVocal", "presetChipmunk",
     "presetMonster", "presetRobot", "presetAlien",
     "presetCave", "presetTelephone", "presetEthereal",
     "presetUnderwater", "presetGiant", "presetCartoon",
     "presetOldRadio", "presetWhisper"}

\* The chain a preset method runs.
PresetChain(method) ==
    CASE method = "presetOperaSinging" -> presetOperaSinging
      [] method = "presetPopSinging" -> presetPopSinging
      [] method = "presetJazzSinging" -> presetJazzSinging
      [] method = "presetRockSinging" -> presetRockSinging
      [] method = "presetGospelSinging" -> presetGospelSinging
      [] method = "presetCountrySinging" -> presetCountrySinging
      [] method = "presetRapVocal" -> presetRapVocal
      [] method = "presetEDMVocal" -> presetEDMVocal
      [] method = "presetChipmunk" -> presetChipmunk
      [] method = "presetMonster" -> presetMonster
      [] method = "presetRobot" -> presetRobot
      [] method = "presetAlien" -> presetAlien
      [] method = "presetCave" -> presetCave
      [] method = "presetTelephone" -> presetTelephone
      [] method = "presetEthereal" -> presetEthereal
      [] method = "presetUnderwater" -> presetUnderwater
      [] method = "presetGiant" -> presetGiant
      [] method = "presetCartoon" -> presetCartoon
      [] method = "presetOldRadio" -> presetOldRadio
      [] method = "presetWhisper" -> presetWhisper

(***************************************************************************)
(* The state: two VoiceMixer objects A and B, the caller's samples as a    *)
(* plain array and as a Float32Array, and the arrays the mixers allocate.  *)
(***************************************************************************)
VARIABLES
    given,        \* the samples the caller supplied (never changes)
    heap,         \* the contents of every array: the caller's "plain" and
                  \* "typed" arrays and, per mixer, the array it allocated last
    audioBuffer,  \* per mixer: the array this.audioBuffer refers to, or "null"
    sampleRate,   \* per mixer: this.sampleRate
    setLen,       \* per mixer: the length given to its last setBuffer, -1 if none
    last,         \* per mixer: its last method call (see CallRecord)
    who,          \* the mixer of the latest call ("none" at the start)
    ncalls,       \* the number of dsp, preset and applyPreset calls made
    nsets,        \* the number of setBuffer calls made
    applied,      \* the last applyPreset call (see ApplyRecord)
    hist,         \* per mixer: what its last setBuffer was given and the
                  \* primitive calls made on it since (see NoHist)
    resampleCall, \* the last direct resample call (see NoResample)
    latent,       \* the style editor's VoiceMixer (see NoStyle)
    app,          \* the page of main.js while it loads (see NoApp)
    frames,       \* the frame loop of the long pitch shift (see NoFrames)
    ui            \* the page's event handlers (see NoUi)

\* The variables of the other programs of the repository.
others == <<resampleCall, latent, app, frames, ui>>

vars ==
    <<given, heap, audioBuffer, sampleRate, setLen, last, who, ncalls, nsets,
      applied, hist, resampleCall, latent, app, frames, ui>>

Mixers == {"A", "B"}

\* More bounds of the model.
MaxLen == 3          \* the short inputs have 0 .. MaxLen samples
MaxCalls == 2        \* dsp, preset and applyPreset calls in a run
MaxSets == 2         \* setBuffer calls in a run
MaxLongCalls == 1    \* the same, when the caller's samples are ShortLimit or more

\* What a run does with a long input (ShortLimit samples or more): only the
\* methods whose code depends on that length, on the first mixer.
LongOps == {"setBuffer", "dspPitchShift"}
LongRun(m, op) == Len(given) >= ShortLimit => m = "A" /\ op \in LongOps

\* constructor(sampleRate = 24000)
DefaultSampleRate == 24000
SampleRates == {8, DefaultSampleRate}

\* The caller's samples: a prefix of a fixed pattern in the nominal range
\* [-1, 1], two samples of the largest finite magnitude, or a long buffer.
PatternValues == <<Frac(1, 2), 0 - SCALE, Frac(3, 10), 0, 0 - Frac(1, 4)>>
Pattern(n) == NewArray(n, LAMBDA i : PatternValues[(i % Len(PatternValues)) + 1])
LongLen == ShortLimit + 1
Inputs ==
    {Pattern(n) : n \in 0..MaxLen} \cup {<<MAXF, 0 - MAXF>>} \cup {Pattern(LongLen)}

\* The values Math.random() may return, and the draws of one dspJitter call
\* on n samples: one per window, the same value d in every window.
RandomDraws == {0, SCALE - 1}
Draws(n, d) == NewArray(JitterWindows(n), LAMBDA w : d)

\* The arguments the model calls the primitives with.
Semitones == {0, 7, 0 - 384, 252}
Shifts == {Num(1), Frac(13, 10), 0}
EchoArgs == {<<200, Frac(1, 2), 3>>, <<0, Num(1), 1>>}
\* <<rate, depth>>: the defaults, full depth at a rate whose sine is -1 on the
\* second sample at 8 Hz, and no depth.
TremoloArgs == {<<Num(5), Frac(1, 2)>>, <<Num(6), Num(1)>>, <<Num(5), 0>>}

\* SineLength samples of a SineHz sine at the default sample rate:
\* sample i is Math.sin(2 * Math.PI * SineHz * i / sampleRate).
SineLength == 1000
SineHz == 440
Sine ==
    NewArray(SineLength, LAMBDA i :
        SinTurns(RoundDiv(SineHz * SCALE * i, DefaultSampleRate)))

\* The presets called one after the other on one buffer.
MaxPresetCalls == 2
PresetPairs ==
    {<<"presetRobot", "presetWhisper">>, <<"presetWhisper", "presetRobot">>,
     <<"presetChipmunk", "presetCave">>, <<"presetAlien", "presetAlien">>}

\* dspPitchShift(7) and dspReverb(0.5, 0.5)
PitchShift7 == Step("dspPitchShift", 7, 0, 0)
ReverbHalf == Step("dspReverb", Frac(1, 2), Frac(1, 2), 0)
MaxOrderCalls == 2

\* The lengths resample is asked for, and the inputs it is given.
MaxNewLength == 12
MaxResampleInput == 5
ResampleInputs ==
    {Pattern(n) : n \in 0..MaxResampleInput} \cup {<<MAXF, 0 - MAXF>>}

NoCall ==
    [op |-> "none", a |-> 0, b |-> 0, c |-> 0, hadBuf |-> FALSE,
     pre |-> <<>>, post |-> <<>>, threw |-> FALSE, ret |-> "none"]

NoApply ==
    [name |-> "none", isArray |-> FALSE, rate |-> 0, draw |-> 0,
     input |-> <<>>, output |-> <<>>, same |-> FALSE, warned |-> FALSE,
     threw |-> FALSE]

(***************************************************************************)
(* The style editor's VoiceMixer (the latent-matrix mixer).  currentTtl is *)
(* a rows x cols matrix kept flat, row after row; cur and orig are the     *)
(* contents of the arrays currentTtl and originalTtl refer to, and aliased *)
(* says that both refer to one array, so that a write through currentTtl   *)
(* is a write to originalTtl.  The matrix is LatentRows x LatentCols here  *)
(* (ttlDims is [1, 50, 256] in the code) and style_dp has DpSize entries.  *)
(***************************************************************************)
LatentRows == 2
LatentCols == 3
DpSize == 2
TtlSize == LatentRows * LatentCols

\* constructor(): currentTtl, currentDp and originalTtl are null.  loaded and
\* loadedDp remember the style_ttl and style_dp last loaded or mixed, op the
\* last method called, nops the number of latent operations since, and
\* undone whether the last reset() found currentTtl different from the
\* original.
NoStyle ==
    [hasCur |-> FALSE, cur |-> <<>>, dp |-> <<>>, hasOrig |-> FALSE,
     orig |-> <<>>, aliased |-> FALSE, loaded |-> <<>>, loadedDp |-> <<>>,
     op |-> "none", nops |-> 0, undone |-> FALSE]

\* A write into the array currentTtl refers to.
LatentWrite(L, data) ==
    [L EXCEPT !.cur = data, !.orig = IF L.aliased THEN data ELSE L.orig]

\* this.currentTtl = newData, a new array.
LatentAssign(L, data) == [L EXCEPT !.cur = data, !.aliased = FALSE]

\* A loadStyle that keeps the working array itself as the original.
latentLoadStyleShared(L, styleObj) ==
    [L EXCEPT !.hasCur = TRUE, !.cur = styleObj.ttl, !.dp = styleObj.dp,
              !.hasOrig = TRUE, !.orig = styleObj.ttl, !.aliased = TRUE]

\* loadStyle(styleObj): copies of the tensors' data, and a copy of the copy
\* as the original.
latentLoadStyle(L, styleObj) ==
    [L EXCEPT !.hasCur = TRUE, !.cur = styleObj.ttl, !.dp = styleObj.dp,
              !.hasOrig = TRUE, !.orig = styleObj.ttl, !.aliased = FALSE]

\* reset(): currentTtl becomes a copy of originalTtl, if there is one.
latentReset(L) ==
    IF L.hasOrig
    THEN [L EXCEPT !.hasCur = TRUE, !.cur = L.orig, !.aliased = FALSE]
    ELSE L

latentMirrorX(L) ==
    IF ~L.hasCur THEN L
    ELSE LatentAssign(L, NewArray(Len(L.cur), LAMBDA i :
             LET r == i \div LatentCols
                 c == i % LatentCols
             IN At(L.cur, r * LatentCols + (LatentCols - 1 - c))))

latentMirrorY(L) ==
    IF ~L.hasCur THEN L
    ELSE LatentAssign(L, NewArray(Len(L.cur), LAMBDA i :
             LET r == i \div LatentCols
                 c == i % LatentCols
             IN At(L.cur, (LatentRows - 1 - r) * LatentCols + c)))

latentInvertSign(L) ==
    IF ~L.hasCur THEN L
    ELSE LatentWrite(L, NewArray(Len(L.cur), LAMBDA i : Neg(At(L.cur, i))))

latentAddScalar(L, val) ==
    IF ~L.hasCur THEN L
    ELSE LatentWrite(L, NewArray(Len(L.cur), LAMBDA i : Add(At(L.cur, i), val)))

latentMultiplyScalar(L, val) ==
    IF ~L.hasCur THEN L
    ELSE LatentWrite(L, NewArray(Len(L.cur), LAMBDA i : Mul(At(L.cur, i), val)))

\* dspSharpen(): each entry gets 1.5 times the central difference along its
\* row (the entry itself standing in beyond the row's ends), in a copy.
latentDspSharpen(L) ==
    IF ~L.hasCur THEN L
    ELSE LatentAssign(L, NewArray(Len(L.cur), LAMBDA i :
             LET c == i % LatentCols
                 prev == IF c > 0 THEN At(L.cur, i - 1) ELSE At(L.cur, i)
                 next == IF c < LatentCols - 1 THEN At(L.cur, i + 1)
                         ELSE At(L.cur, i)
                 grad == Div(Sub(next, prev), Num(2))
             IN Add(At(L.cur, i), Mul(grad, Frac(15, 10)))))

\* dspQuantize(): Math.round(x * 5) / 5, in place.
latentDspQuantize(L) ==
    IF ~L.hasCur THEN L
    ELSE LatentWrite(L, NewArray(Len(L.cur), LAMBDA i :
             Div(MathRound(Mul(At(L.cur, i), Num(5))), Num(5))))

\* The echo of dspEcho() and applySingingIntro(): each entry gets decay
\* times the entry shift columns to its left in its row (wrapping), in a copy.
LatentEcho(L, shift, decay) ==
    LatentAssign(L, NewArray(Len(L.cur), LAMBDA i :
        LET r == i \div LatentCols
            c == i % LatentCols
            srcC == IF c - shift < 0 THEN c - shift + LatentCols ELSE c - shift
        IN Add(At(L.cur, i), Mul(At(L.cur, r * LatentCols + srcC), decay))))

latentDspEcho(L) == IF ~L.hasCur THEN L ELSE LatentEcho(L, 2, Frac(1, 2))

\* The envelope loop of dspTremolo() and the applySinging methods: column c
\* is multiplied by 1 + amp * sin(2 pi c / (cols - 1)), in place.
LatentEnvelope(L, amp) ==
    LatentWrite(L, NewArray(Len(L.cur), LAMBDA i :
        LET c == i % LatentCols
            envelope == Add(SCALE, Mul(amp, SinTurns(Frac(c, LatentCols - 1))))
        IN Mul(At(L.cur, i), envelope)))

latentDspTremolo(L) == IF ~L.hasCur THEN L ELSE LatentEnvelope(L, Frac(1, 2))

\* dspJitter(): each entry times 0.8 + Math.random() * 0.4, in place;
\* draws[i + 1] is the value Math.random() returned for entry i.
latentDspJitter(L, draws) ==
    IF ~L.hasCur THEN L
    ELSE LatentWrite(L, NewArray(Len(L.cur), LAMBDA i :
             Mul(At(L.cur, i),
                 Add(Frac(8, 10), Mul(At(draws, i), Frac(4, 10))))))

\* randomShift(): the matrix rolled by shiftR rows and shiftC columns, the
\* two being Math.floor(Math.random() * rows) and ... * cols.
latentRandomShift(L, shiftR, shiftC) ==
    IF ~L.hasCur THEN L
    ELSE LatentAssign(L, NewArray(Len(L.cur), LAMBDA i :
             LET r == i \div LatentCols
                 c == i % LatentCols
                 srcR == (r - shiftR + LatentRows) % LatentRows
                 srcC == (c - shiftC + LatentCols) % LatentCols
             IN At(L.cur, srcR * LatentCols + srcC)))

\* The weights mixVoices uses: those given, or 1 / count each.
MixWeights(count, weights) ==
    IF weights = <<>> THEN [k \in 1..count |-> Div(SCALE, Num(count))]
    ELSE weights

\* The sum over the voices of weight times entry i of their field f.
RECURSIVE MixSum(_, _, _, _, _)
MixSum(objs, w, f, i, k) ==
    IF k > Len(objs) THEN 0
    ELSE LET rest == MixSum(objs, w, f, i, k + 1)
         IN Add(Mul(At(objs[k][f], i), w[k]), rest)

\* mixVoices(voiceStyleObjs, weights): the weighted sums become currentTtl
\* and currentDp, and a copy of the mixed ttl the original.
latentMixVoices(L, objs, weights) ==
    IF Len(objs) = 0 THEN L
    ELSE LET w == MixWeights(Len(objs), weights)
             mixedTtl == NewArray(TtlSize, LAMBDA i : MixSum(objs, w, "ttl", i, 1))
             mixedDp == NewArray(DpSize, LAMBDA i : MixSum(objs, w, "dp", i, 1))
         IN [L EXCEPT !.hasCur = TRUE, !.cur = mixedTtl, !.dp = mixedDp,
                      !.hasOrig = TRUE, !.orig = mixedTtl, !.aliased = FALSE]

latentApplySingingPreset(L) ==
    IF ~L.hasCur THEN L
    ELSE latentMultiplyScalar(latentDspTremolo(latentDspSharpen(L)), Frac(11, 10))

latentApplySingingVerse(L) ==
    IF ~L.hasCur THEN L
    ELSE latentMultiplyScalar(LatentEnvelope(L, Frac(3, 10)), Frac(105, 100))

latentApplySingingChorus(L) ==
    IF ~L.hasCur THEN L
    ELSE latentMultiplyScalar(
             latentDspTremolo(latentDspEcho(latentDspSharpen(L))),
             Frac(115, 100))

latentApplySingingBridge(L, draws) ==
    IF ~L.hasCur THEN L
    ELSE latentMultiplyScalar(
             LatentEnvelope(latentDspJitter(latentDspQuantize(L), draws),
                            Frac(4, 10)),
             Frac(108, 100))

latentApplySingingIntro(L) ==
    IF ~L.hasCur THEN L
    ELSE latentMultiplyScalar(LatentEcho(L, 1, Frac(3, 10)), Frac(103, 100))

latentApplySingingOutro(L) ==
    IF ~L.hasCur THEN L
    ELSE latentMultiplyScalar(LatentEnvelope(latentDspEcho(L), Frac(1, 4)),
                              Frac(98, 100))

\* The latent operations by name; draws, shiftR and shiftC are the random
\* values of the call and val the argument of addScalar / multiplyScalar.
LatentOps ==
    {"mirrorX", "mirrorY", "invertSign", "addScalar", "multiplyScalar",
     "dspSharpen", "dspQuantize", "dspEcho", "dspTremolo", "dspJitter",
     "randomShift", "applySingingPreset", "applySingingVerse",
     "applySingingChorus", "applySingingBridge", "applySingingIntro",
     "applySingingOutro"}

LatentOp(L, op, val, draws, shiftR, shiftC) ==
    CASE op = "mirrorX" -> latentMirrorX(L)
      [] op = "mirrorY" -> latentMirrorY(L)
      [] op = "invertSign" -> latentInvertSign(L)
      [] op = "addScalar" -> latentAddScalar(L, val)
      [] op = "multiplyScalar" -> latentMultiplyScalar(L, val)
      [] op = "dspSharpen" -> latentDspSharpen(L)
      [] op = "dspQuantize" -> latentDspQuantize(L)
      [] op = "dspEcho" -> latentDspEcho(L)
      [] op = "dspTremolo" -> latentDspTremolo(L)
      [] op = "dspJitter" -> latentDspJitter(L, draws)
      [] op = "randomShift" -> latentRandomShift(L, shiftR, shiftC)
      [] op = "applySingingPreset" -> latentApplySingingPreset(L)
      [] op = "applySingingVerse" -> latentApplySingingVerse(L)
      [] op = "applySingingChorus" -> latentApplySingingChorus(L)
      [] op = "applySingingBridge" -> latentApplySingingBridge(L, draws)
      [] op = "applySingingIntro" -> latentApplySingingIntro(L)
      [] op = "applySingingOutro" -> latentApplySingingOutro(L)

\* The voice styles of the model, and the bound on the latent operations
\* between two loads.
VoiceStyle(k) ==
    [ttl |-> NewArray(TtlSize, LAMBDA i : Frac((((i + 1) * (k + 2)) % 7) - 3, 4)),
     dp |-> NewArray(DpSize, LAMBDA i : Frac(k + i, 2))]
NumStyles == 2
VoiceStyles == {VoiceStyle(k) : k \in 1..NumStyles}
MaxLatentOps == 2
ScalarArgs == {Frac(1, 4), 0}
MixArgs ==
    {<<<<VoiceStyle(1), VoiceStyle(2)>>, <<>>>>,
     <<<<VoiceStyle(1), VoiceStyle(2)>>, <<Frac(1, 4), Frac(3, 4)>>>>,
     <<<<>>, <<>>>>}

\* What the editor does to the mixer outside the model's variables.
LatentFrame ==
    UNCHANGED <<given, heap, audioBuffer, sampleRate, setLen, last, who, ncalls,
                nsets, applied, hist, resampleCall, app, frames, ui>>

LoadStyle ==
    \E styleObj \in VoiceStyles :
        /\ latent' = [latentLoadStyle(latent, styleObj) EXCEPT
                         !.loaded = styleObj.ttl, !.loadedDp = styleObj.dp,
                         !.op = "loadStyle", !.nops = 0]
        /\ LatentFrame

MixVoices ==
    \E arg \in MixArgs :
        \E mixed \in {latentMixVoices(latent, arg[1], arg[2])} :
            /\ latent' = IF Len(arg[1]) = 0
                         THEN [mixed EXCEPT !.op = "mixVoices"]
                         ELSE [mixed EXCEPT !.loaded = mixed.cur,
                                            !.loadedDp = mixed.dp,
                                            !.op = "mixVoices", !.nops = 0]
            /\ LatentFrame

LatentCall ==
    \E op \in LatentOps, val \in ScalarArgs, d \in RandomDraws,
       shiftR \in 0..(LatentRows - 1), shiftC \in 0..(LatentCols - 1) :
        /\ latent.nops < MaxLatentOps
        /\ op \notin {"addScalar", "multiplyScalar"} => val = 0
        /\ op \notin {"dspJitter", "applySingingBridge"} => d = 0
        /\ op # "randomShift" => shiftR = 0 /\ shiftC = 0
        /\ latent' = [LatentOp(latent, op, val,
                               NewArray(TtlSize, LAMBDA i : d), shiftR, shiftC)
                         EXCEPT !.op = op, !.nops = latent.nops + 1]
        /\ LatentFrame

Reset ==
    /\ latent' = [latentReset(latent) EXCEPT
                     !.op = "reset",
                     !.undone = latent.hasOrig /\ latent.cur # latent.orig]
    /\ LatentFrame

(***************************************************************************)
(* The page (main.js) from its load event to the end of initializeModels.  *)
(* pc is the statement initializeModels is at.  The ONNX loader           *)
(* (loadTextToSpeech), the style loader (loadStyleFromJSON) and the page's *)
(* elements are outside the repository's files: a load reports progress    *)
(* model by model and either completes or rejects, the default style is    *)
(* available or not, and the badge element exists or not.                  *)
(***************************************************************************)
NumModels == 4

NoApp ==
    [pc |-> "idle", mixerModule |-> "none", hasBadge |-> FALSE,
     styleAvailable |-> FALSE, progress |-> 0, webgpu |-> "untried",
     wasm |-> "untried", textToSpeech |-> FALSE, cfgs |-> FALSE,
     executionProvider |-> "none", badgeText |-> "", status |-> "none",
     currentStyle |-> FALSE, generateDisabled |-> FALSE, error |-> "none",
     styleRequested |-> FALSE]

\* new VoiceMixer() of main.js: import { VoiceMixer } from './mixer.js'.  In
\* the tree the file next to web/main.js is the audio mixer; the class with
\* the style editor's methods is the one of unnamed/part_005.
MixerModules == {"web/mixer.js", "unnamed/part_005"}

\* catch (error) of initializeModels: the error is logged and shown.
OuterCatch(a, error) == [a EXCEPT !.status = "error", !.error = error, !.pc = "done"]

\* What is known of a mixer's buffer since its last setBuffer: the argument
\* of its last setBuffer, the primitive calls that ran since (each a step
\* with the Math.random() values it drew, the calls of a preset one by one),
\* whether a call on it ever threw, and the number of calls made on it.
NoHist ==
    [src |-> "none", base |-> <<>>, steps |-> <<>>, threw |-> FALSE, calls |-> 0]

\* resample(input, newLength): its arguments, whether it threw, and the
\* array it returned.  length is INVALID for a length of 2^32 or more.
NoResample ==
    [called |-> FALSE, input |-> <<>>, length |-> 0, threw |-> FALSE,
     output |-> <<>>]

\* The frame loop of pitchShiftSimple on a buffer of len samples: pc says
\* whether it runs, ended or threw, i is the start of the next frame, and
\* at, newSize, outPos and n describe the frame processed last: its start,
\* the length it was resampled to, where it was added into output, and how
\* many samples of it were added.
NoFrames ==
    [pc |-> "idle", len |-> 0, semitones |-> 0, i |-> 0, nframes |-> 0,
     at |-> 0, newSize |-> 0, outPos |-> 0, n |-> 0]

\* The page after initializeUI.  gen holds one record per run of
\* generateSpeech (a click on the enabled generate button): pc is "returned"
\* (a guard failed), "synth" (awaiting textToSpeech.call) or "done", guard the
\* guard that failed, outcome how the synthesis ended, and gaveBack whether
\* the button was enabled when its finally block had run.  events counts
\* the user's events (clicks and changes); loads the dropdown handlers
\* awaiting loadStyleFromJSON and reading the file readers still reading;
\* errorShown is the error box; synthCalls the textToSpeech.call calls
\* started; mixerHasStyle whether a handler gave the style editor's mixer a
\* style.
NoUi ==
    [gen |-> <<>>, events |-> 0, loads |-> 0, reading |-> 0,
     errorShown |-> FALSE, synthCalls |-> 0, mixerHasStyle |-> FALSE]

\* A mixer just constructed, the caller's samples being one of inputs.
InitWith(inputs) ==
    /\ given \in inputs
    /\ heap = [l \in {"plain", "typed"} \cup Mixers |->
                 IF l \in Mixers THEN <<>> ELSE given]
    /\ audioBuffer = [m \in Mixers |-> "null"]
    /\ sampleRate \in {[m \in Mixers |-> r] : r \in SampleRates}
    /\ Len(given) >= ShortLimit => sampleRate["A"] = DefaultSampleRate
    /\ setLen = [m \in Mixers |-> 0 - 1]
    /\ last = [m \in Mixers |-> NoCall]
    /\ who = "none"
    /\ ncalls = 0
    /\ nsets = 0
    /\ applied = NoApply
    /\ hist = [m \in Mixers |-> NoHist]
    /\ resampleCall = NoResample
    /\ latent = NoStyle
    /\ app = NoApp
    /\ frames = NoFrames
    /\ ui = NoUi

Init == InitWith(Inputs)

\* getBuffer(): this.audioBuffer, null or the array.
getBuffer(m) ==
    IF audioBuffer[m] = "null" THEN [isNull |-> TRUE, items |-> <<>>]
    ELSE [isNull |-> FALSE, items |-> heap[audioBuffer[m]]]

\* A method that ends without a return statement: the caller gets undefined.
ReturnNothing(m, threw) == "none"

\* "return this" at the end of a method: the mixer, unless the method threw.
ReturnThis(m, threw) == IF threw THEN "none" ELSE m

\* A setBuffer that keeps the array the mixer already has, if it has one.
SetBufferTargetOnce(m, src) ==
    IF audioBuffer[m] # "null" THEN audioBuffer[m]
    ELSE IF src = "plain" THEN "plain" ELSE m

\* Array.isArray(buffer) ? buffer : Array.from(buffer): the array setBuffer
\* makes this.audioBuffer refer to, the caller's own array when it is a plain
\* one and a copy (held in the mixer's slot) when it is a Float32Array.
SetBufferTarget(m, src) == IF src = "plain" THEN "plain" ELSE m

setBuffer(m, src) ==
    /\ src \in {"plain", "typed"}
    /\ LongRun(m, "setBuffer")
    /\ nsets < MaxSets
    /\ nsets' = nsets + 1
    /\ audioBuffer' = [audioBuffer EXCEPT ![m] = SetBufferTarget(m, src)]
    /\ heap' = IF SetBufferTarget(m, src) = m
               THEN [heap EXCEPT ![m] = heap[src]] ELSE heap
    /\ setLen' = [setLen EXCEPT ![m] = Len(heap[src])]
    /\ last' = [last EXCEPT ![m] =
                  [NoCall EXCEPT !.op = "setBuffer", !.hadBuf = TRUE,
                                 !.pre = heap[src], !.post = heap[src],
                                 !.ret = ReturnThis(m, FALSE)]]
    /\ hist' = [hist EXCEPT ![m] =
                  [@ EXCEPT !.src = src, !.base = heap[src], !.steps = <<>>]]
    /\ who' = m
    /\ UNCHANGED <<given, sampleRate, ncalls, applied, others>>

\* The steps of a chain that ran: all of them, or those up to the one that
\* threw.
Executed(steps, hasBuf, buf, sr, draws, fin) ==
    IF ~fin.threw \/ Len(steps) = 1 THEN steps
    ELSE SubSeq(steps, 1,
                CHOOSE k \in 1..Len(steps) :
                    /\ RunChain(SubSeq(steps, 1, k), 1, ChainStart(hasBuf, buf),
                                sr, draws).threw
                    /\ \A j \in 1..(k - 1) :
                          ~RunChain(SubSeq(steps, 1, j), 1,
                                    ChainStart(hasBuf, buf), sr, draws).threw)

\* One chain of calls on mixer m, as a single synchronous step: a primitive
\* (a chain of one) or a preset method.
Invoke(m, op, steps, draws) ==
    LET ref == audioBuffer[m]
        hasBuf == ref # "null"
        buf == IF hasBuf THEN heap[ref] ELSE <<>>
    IN /\ \E fin \in {RunChain(steps, 1, ChainStart(hasBuf, buf),
                                sampleRate[m], draws)} :
            /\ heap' = IF ~hasBuf THEN heap
                       ELSE IF fin.replaced
                            THEN [[heap EXCEPT ![ref] = fin.orig]
                                     EXCEPT ![m] = fin.cur]
                            ELSE [heap EXCEPT ![ref] = fin.orig]
            /\ audioBuffer' = IF fin.replaced
                              THEN [audioBuffer EXCEPT ![m] = m]
                              ELSE audioBuffer
            /\ last' = [last EXCEPT ![m] =
                          [op |-> op,
                           a |-> IF Len(steps) = 1 THEN steps[1].a ELSE 0,
                           b |-> IF Len(steps) = 1 THEN steps[1].b ELSE 0,
                           c |-> IF Len(steps) = 1 THEN steps[1].c ELSE 0,
                           hadBuf |-> hasBuf, pre |-> buf, post |-> fin.cur,
                           threw |-> fin.threw,
                           ret |-> ReturnThis(m, fin.threw)]]
            /\ hist' = [hist EXCEPT ![m] =
                          [@ EXCEPT
                             !.steps = @ \o
                                 NewArray(Len(Executed(steps, hasBuf, buf,
                                                       sampleRate[m], draws, fin)),
                                     LAMBDA k : [st |-> steps[k + 1],
                                                 draws |-> draws]),
                             !.threw = @ \/ fin.threw,
                             !.calls = @ + 1]]
       /\ who' = m
       /\ ncalls' = ncalls + 1
       /\ UNCHANGED <<given, sampleRate, setLen, nsets, applied, others>>

\* One chain of calls on mixer m, within the bounds of a run.
Call(m, op, steps, draws) ==
    /\ ncalls < MaxCalls
    /\ Len(given) >= ShortLimit => ncalls < MaxLongCalls
    /\ LongRun(m, op)
    /\ Invoke(m, op, steps, draws)

Primitive(m, st, draws) == Call(m, st.op, <<st>>, draws)

\* The number of samples of m's buffer (0 when it has none).
BufLen(m) == Len(getBuffer(m).items)

CallPitchShift(m) ==
    \E s \in Semitones : Primitive(m, Step("dspPitchShift", s, 0, 0), <<>>)
CallFormantShift(m) ==
    \E f \in Shifts : Primitive(m, Step("dspFormantShift", f, 0, 0), <<>>)
CallVibrato(m) == Primitive(m, Step("dspVibrato", Num(5), Frac(1, 2), 0), <<>>)
CallTremolo(m) ==
    \E t \in TremoloArgs : Primitive(m, Step("dspTremolo", t[1], t[2], 0), <<>>)
CallEcho(m) ==
    \E e \in EchoArgs : Primitive(m, Step("dspEcho", e[1], e[2], e[3]), <<>>)
CallReverb(m) == Primitive(m, Step("dspReverb", Frac(1, 2), Frac(1, 2), 0), <<>>)
CallChorus(m) == Primitive(m, Step("dspChorus", 3, 20, 0), <<>>)
CallDistortion(m) == Primitive(m, Step("dspDistortion", Frac(1, 2), 0, 0), <<>>)
CallQuantize(m) == Primitive(m, Step("dspQuantize", 16, 0, 0), <<>>)
CallSharpen(m) == Primitive(m, Step("dspSharpen", Frac(3, 10), 0, 0), <<>>)
CallJitter(m) ==
    \E d \in RandomDraws :
        Primitive(m, Step("dspJitter", Frac(1, 10), 0, 0), Draws(BufLen(m), d))

\* A direct call resample(given, newLength), on any mixer: the method uses
\* no field of the mixer.  new Array(newLength) throws for INVALID.
Resample ==
    \E newLength \in (0..MaxNewLength) \cup {INVALID} :
        /\ resampleCall' =
              [called |-> TRUE, input |-> given, length |-> newLength,
               threw |-> newLength = INVALID,
               output |-> IF newLength = INVALID THEN <<>>
                          ELSE resample(given, newLength)]
        /\ UNCHANGED <<given, heap, audioBuffer, sampleRate, setLen, last, who,
                       ncalls, nsets, applied, hist, latent, app, frames, ui>>

\* Whether a chain calls dspJitter (and so Math.random()).
UsesRandom(steps) == \E k \in 1..Len(steps) : steps[k].op = "dspJitter"

CallPreset(m) ==
    \E method \in PresetMethods :
        \E d \in RandomDraws :
            /\ ~UsesRandom(PresetChain(method)) => d = 0
            /\ Call(m, method, PresetChain(method), Draws(BufLen(m), d))

\* getAvailablePresets(): the registry of preset names shown to the user.
getAvailablePresets ==
    [singing |->
        <<[value |-> "OperaSinging", label |-> "Opera"],
          [value |-> "PopSinging", label |-> "Pop"],
          [value |-> "JazzSinging", label |-> "Jazz"],
          [value |-> "RockSinging", label |-> "Rock"],
          [value |-> "GospelSinging", label |-> "Gospel/Soul"],
          [value |-> "CountrySinging", label |-> "Country"],
          [value |-> "RapVocal", label |-> "Hip-Hop/Rap"],
          [value |-> "EDMVocal", label |-> "Electronic/EDM"]>>,
     persona |->
        <<[value |-> "Chipmunk", label |-> "Chipmunk"],
          [value |-> "Monster", label |-> "Monster"],
          [value |-> "Robot", label |-> "Robot"],
          [value |-> "Alien", label |-> "Alien"],
          [value |-> "Cave", label |-> "Cave/Echo"],
          [value |-> "Telephone", label |-> "Telephone"],
          [value |-> "Ethereal", label |-> "Ethereal"],
          [value |-> "Underwater", label |-> "Underwater"],
          [value |-> "Giant", label |-> "Giant"],
          [value |-> "Cartoon", label |-> "Cartoon"],
          [value |-> "OldRadio", label |-> "Old Radio"],
          [value |-> "Whisper", label |-> "Whisper"]>>]

\* The value fields of a registry list.
Values(list) == {list[k].value : k \in 1..Len(list)}
RegistryValues ==
    Values(getAvailablePresets.singing) \cup Values(getAvailablePresets.persona)

\* Names applyPreset is called with: the registry's values, and names that
\* are a label, a differently cased value, and the empty string.
UnknownNames == {"Opera", "robot", ""}
PresetNames == RegistryValues \cup UnknownNames

\* A method name built with a capital P.
PresetMethodNameCapital(presetName) == "Preset" \o presetName

\* const presetMethod = `preset${presetName}`
PresetMethodName(presetName) == "preset" \o presetName

\* typeof mixer[presetMethod] === 'function'
IsPresetMethod(presetMethod) == presetMethod \in PresetMethods

\* An applyPreset that falls back to the robot preset for an unknown name.
applyPresetWithDefault(buf, presetName, rate, draws) ==
    LET known == "preset" \o presetName \in PresetMethods
        chain == IF known THEN PresetChain("preset" \o presetName) ELSE presetRobot
    IN [fin |-> RunChain(chain, 1, ChainStart(TRUE, buf), rate, draws),
        warned |-> ~known]

\* applyPreset(audioBuffer, presetName, sampleRate) on a fresh mixer: the
\* chain it runs (none for an unknown name) and whether it warns.
applyPreset(buf, presetName, rate, draws) ==
    LET presetMethod == PresetMethodName(presetName)
        start == ChainStart(TRUE, buf)
    IN IF IsPresetMethod(presetMethod)
       THEN [fin |-> RunChain(PresetChain(presetMethod), 1, start, rate, draws),
             warned |-> FALSE]
       ELSE [fin |-> start, warned |-> TRUE]

\* One applyPreset call on the caller's plain array or Float32Array.
ApplyPreset(src, presetName, rate, d) ==
    /\ ncalls < MaxCalls
    /\ LongRun("A", "applyPreset")
    /\ IsPresetMethod(PresetMethodName(presetName))
          /\ ~UsesRandom(PresetChain(PresetMethodName(presetName))) => d = 0
    /\ ~IsPresetMethod(PresetMethodName(presetName)) => d = 0
    /\ \E r \in {applyPreset(heap[src], presetName, rate,
                              Draws(Len(heap[src]), d))} :
         /\ heap' = [heap EXCEPT ![SetBufferTarget("A", src)] =
                        IF src = "plain" THEN r.fin.orig ELSE @]
         /\ applied' = [name |-> presetName, isArray |-> src = "plain",
                        rate |-> rate, draw |-> d, input |-> heap[src],
                        output |-> r.fin.cur,
                        same |-> src = "plain" /\ ~r.fin.replaced,
                        warned |-> r.warned, threw |-> r.fin.threw]
    /\ ncalls' = ncalls + 1
    /\ UNCHANGED <<given, audioBuffer, sampleRate, setLen, last, who, nsets,
                   hist, others>>

SetBuffer(m) == \E src \in {"plain", "typed"} : setBuffer(m, src)

\* The primitives, called directly.
Next ==
    \E m \in Mixers :
        \/ SetBuffer(m)
        \/ CallPitchShift(m)
        \/ CallFormantShift(m)
        \/ CallVibrato(m)
        \/ CallTremolo(m)
        \/ CallEcho(m)
        \/ CallReverb(m)
        \/ CallChorus(m)
        \/ CallDistortion(m)
        \/ CallQuantize(m)
        \/ CallSharpen(m)
        \/ CallJitter(m)

Spec == Init /\ [][Next]_vars

\* The presets, called as methods.
NextPresets ==
    \E m \in Mixers :
        \/ SetBuffer(m)
        \/ CallPreset(m)

\* The preset runs start from the empty buffer or the longest short pattern.
InitPresets == Init /\ Len(given) \in {0, MaxLen}

\* setBuffer, the primitives and the presets together.
NextMethods == Next \/ (\E m \in Mixers : CallPreset(m))
SpecMethods == InitPresets /\ [][NextMethods]_vars

\* The two orders of dspPitchShift(7) and dspReverb(0.5, 0.5) on the sine:
\* each mixer is given the sine and called at most MaxOrderCalls times.
InitOrder ==
    InitWith({Sine}) /\ sampleRate = [m \in Mixers |-> DefaultSampleRate]
OrderCall(m, st) ==
    /\ hist[m].calls < MaxOrderCalls
    /\ Invoke(m, st.op, <<st>>, <<>>)
OrderPitchShift(m) == OrderCall(m, PitchShift7)
OrderReverb(m) == OrderCall(m, ReverbHalf)
NextOrder ==
    \E m \in Mixers :
        \/ SetBuffer(m)
        \/ OrderPitchShift(m)
        \/ OrderReverb(m)
SpecOrder == InitOrder /\ [][NextOrder]_vars

\* Presets against their primitives: presets are called on mixer A, at most
\* MaxPresetCalls in a row and two in a row only for the pairs of
\* PresetPairs; on mixer B the primitives mixer A's presets called since its
\* last setBuffer are called one at a time, in the same order, with the same
\* arguments and the same Math.random() values, when B was given the same
\* samples as A (or neither has a buffer).
StepsPreset ==
    \E method \in PresetMethods :
        \E d \in RandomDraws :
            /\ hist["A"].calls < MaxPresetCalls
            /\ hist["A"].calls > 0 => <<last["A"].op, method>> \in PresetPairs
            /\ ~UsesRandom(PresetChain(method)) => d = 0
            /\ Invoke("A", method, PresetChain(method), Draws(BufLen("A"), d))

StepsPrimitive ==
    \E k \in {Len(hist["B"].steps) + 1} :
        /\ k <= Len(hist["A"].steps)
        /\ getBuffer("A").isNull = getBuffer("B").isNull
        /\ hist["A"].base = hist["B"].base
        /\ \E call \in {hist["A"].steps[k]} :
              Invoke("B", call.st.op, <<call.st>>, call.draws)

NextSteps ==
    \/ \E m \in Mixers : SetBuffer(m)
    \/ StepsPreset
    \/ StepsPrimitive
SpecSteps == InitPresets /\ [][NextSteps]_vars

\* The style editor: loads, mixes, latent operations and resets in any order.
NextLatent == LoadStyle \/ MixVoices \/ LatentCall \/ Reset
SpecLatent == InitWith({<<>>}) /\ [][NextLatent]_vars

\* resample, called on its own.
NextResample == Resample
SpecResample == InitWith(ResampleInputs) /\ [][NextResample]_vars

SpecPresets == InitPresets /\ [][NextPresets]_vars

\* The presets, called through applyPreset.
CallApplyPreset ==
    \E src \in {"plain", "typed"} : \E presetName \in PresetNames :
        \E d \in RandomDraws : ApplyPreset(src, presetName, sampleRate["A"], d)

NextApply == CallApplyPreset

SpecApply == InitPresets /\ [][NextApply]_vars

\* The effects on short buffers of 0 .. MaxEffectLen samples, a loud buffer
\* (peak 2.0) and the two samples of the largest magnitude, with the
\* arguments below: pitch shifts up and down, within the design range and
\* far outside it; sharpen by the default amount and by 1; quantize to 8
\* levels and to 1; chorus with no extra voice; echo as in EchoArgs.
MaxEffectLen == 5
Loud == <<Num(2), Frac(1, 2), 0 - Num(1)>>
EffectInputs ==
    {Pattern(n) : n \in 0..MaxEffectLen} \cup {Loud, <<MAXF, 0 - MAXF>>}
ShortSemitones == {7, 0 - 5, 252, 0 - 384}
SharpenAmounts == {Frac(3, 10), Num(1)}
QuantizeLevels == {8, 1}
SoloVoices == {0, 1}

EffectPitchShift(m) ==
    \E s \in ShortSemitones : Primitive(m, Step("dspPitchShift", s, 0, 0), <<>>)
EffectSharpen(m) ==
    \E a \in SharpenAmounts : Primitive(m, Step("dspSharpen", a, 0, 0), <<>>)
EffectQuantize(m) ==
    \E l \in QuantizeLevels : Primitive(m, Step("dspQuantize", l, 0, 0), <<>>)
EffectChorus(m) ==
    \E v \in SoloVoices : Primitive(m, Step("dspChorus", v, 20, 0), <<>>)
EffectEcho(m) ==
    \E e \in EchoArgs : Primitive(m, Step("dspEcho", e[1], e[2], e[3]), <<>>)

NextEffects ==
    \E m \in Mixers :
        \/ SetBuffer(m)
        \/ EffectPitchShift(m)
        \/ EffectSharpen(m)
        \/ EffectQuantize(m)
        \/ EffectChorus(m)
        \/ EffectEcho(m)
SpecEffects == InitWith(EffectInputs) /\ [][NextEffects]_vars

\* dspJitter on buffers that span one, two and three windows: half a
\* window, one sample more, and MidLen samples; with amount 0 and with the
\* default amount, at the default sample rate (dspJitter does not use it).
MidLen == 520
JitterInputs ==
    {Pattern(jitterWindow \div 2), Pattern((jitterWindow \div 2) + 1),
     Pattern(MidLen)}
JitterAmounts == {0, Frac(1, 10)}
JitterCall(m) ==
    \E a \in JitterAmounts : \E d \in RandomDraws :
        Primitive(m, Step("dspJitter", a, 0, 0), Draws(BufLen(m), d))
NextJitter ==
    \E m \in Mixers :
        \/ SetBuffer(m)
        \/ JitterCall(m)
InitJitter ==
    InitWith(JitterInputs) /\ sampleRate = [m \in Mixers |-> DefaultSampleRate]
SpecJitter == InitJitter /\ [][NextJitter]_vars

(***************************************************************************)
(* The frame loop of the long path of pitchShiftSimple, one frame a step.  *)
(* Which elements a frame reads and writes depends on the length of the    *)
(* buffer and on the ratio only, so the samples are left out.              *)
(***************************************************************************)
\* The lengths and shifts the loop is run with: the shortest long buffer,
\* one sample more, and MaxFrameLen samples; shifts up and down within and
\* outside the design range, whose ratios reach from 2^-32 to 2^21.
MaxFrameLen == 6000
FrameLens == {ShortLimit, ShortLimit + 1, MaxFrameLen}
FrameSemitones == {7, 0 - 5, 96, 0 - 96, 252, 0 - 384}

\* pitchShiftSimple past the short path: output is allocated, i = 0.
ShiftStart ==
    \E len \in FrameLens : \E s \in FrameSemitones :
        /\ frames.pc = "idle"
        /\ frames' = [NoFrames EXCEPT !.pc = "loop", !.len = len,
                                      !.semitones = s]
        /\ UNCHANGED <<given, heap, audioBuffer, sampleRate, setLen, last, who,
                       ncalls, nsets, applied, hist, resampleCall, latent, app,
                       ui>>

\* One pass of "for (let i = 0; i < input.length - windowSize; i += hopSize)":
\* the frame is read, resampled (new Array(newSize) throws when newSize is
\* no array length) and added into output from outPos on.
ShiftFrame ==
    /\ frames.pc = "loop" /\ frames.i < frames.len - windowSize
    /\ LET ratio == Pow2Semitones(frames.semitones)
           newSize == FloorMulRatio(windowSize, ratio)
           outPos == FloorMulRatio(frames.i, ratio)
       IN frames' =
              IF newSize = INVALID
              THEN [frames EXCEPT !.pc = "threw", !.at = frames.i,
                                  !.nframes = @ + 1, !.newSize = INVALID,
                                  !.outPos = 0, !.n = 0]
              ELSE [frames EXCEPT !.at = frames.i, !.i = @ + hopSize,
                                  !.nframes = @ + 1, !.newSize = newSize,
                                  !.outPos = outPos,
                                  !.n = FrameWriteCount(newSize, frames.len,
                                                        outPos)]
    /\ UNCHANGED <<given, heap, audioBuffer, sampleRate, setLen, last, who,
                   ncalls, nsets, applied, hist, resampleCall, latent, app, ui>>

\* The loop condition fails: the normalization follows and the method
\* returns.
ShiftEnd ==
    /\ frames.pc = "loop" /\ ~(frames.i < frames.len - windowSize)
    /\ frames' = [frames EXCEPT !.pc = "done"]
    /\ UNCHANGED <<given, heap, audioBuffer, sampleRate, setLen, last, who,
                   ncalls, nsets, applied, hist, resampleCall, latent, app, ui>>

NextFrames == ShiftStart \/ ShiftFrame \/ ShiftEnd
SpecFrames == InitWith({<<>>}) /\ [][NextFrames]_vars

(***************************************************************************)
(* Properties                                                              *)
(***************************************************************************)
Primitives ==
    {"dspPitchShift", "dspFormantShift", "dspVibrato", "dspTremolo", "dspEcho",
     "dspReverb", "dspChorus", "dspDistortion", "dspQuantize", "dspSharpen",
     "dspJitter"}

\* The methods of the class a module exports as VoiceMixer.
MixerMethods(module) ==
    IF module = "web/mixer.js"
    THEN {"setBuffer", "getBuffer", "pitchShiftSimple", "resample",
          "hanningWindow", "applyPreset", "getAvailablePresets"}
         \cup Primitives \cup PresetMethods
    ELSE {"setCanvas", "loadStyle", "reset", "getStyle", "renderHeatmap",
          "_getVal", "_setVal", "mixVoices"} \cup LatentOps

\* What no handler of the page touches.
PageFrame ==
    UNCHANGED <<given, heap, audioBuffer, sampleRate, setLen, last, who, ncalls,
                nsets, applied, hist, resampleCall, latent, frames>>

AppFrame == PageFrame /\ UNCHANGED ui

\* The load event: initializeUI(), generateBtn.disabled = true, and
\* initializeModels up to its first await.
PageLoad ==
    \E module \in MixerModules, badge \in BOOLEAN, style \in BOOLEAN :
        /\ app.pc = "idle"
        /\ app' = [app EXCEPT !.pc = "webgpu", !.mixerModule = module,
                              !.hasBadge = badge, !.styleAvailable = style,
                              !.generateDisabled = TRUE, !.status = "info",
                              !.executionProvider = "wasm", !.webgpu = "loading"]
        /\ AppFrame

\* The progress callback of a load: showStatus("Loading ONNX models (k/n)").
LoadProgress ==
    /\ app.pc \in {"webgpu", "wasm"} /\ app.progress < NumModels
    /\ app' = [app EXCEPT !.progress = app.progress + 1, !.status = "info"]
    /\ AppFrame

\* The WebGPU load rejects: the inner catch starts the WebAssembly load.
WebGpuFails ==
    /\ app.pc = "webgpu" /\ app.progress < NumModels
    /\ app' = [app EXCEPT !.webgpu = "failed", !.pc = "wasm", !.progress = 0,
                          !.wasm = "loading"]
    /\ AppFrame

\* The WebGPU load resolves: textToSpeech and cfgs are set, then the badge
\* is written; without a badge element that write throws inside the inner
\* try and the inner catch starts the WebAssembly load.
WebGpuLoaded ==
    /\ app.pc = "webgpu" /\ app.progress = NumModels
    /\ app' = IF app.hasBadge
              THEN [app EXCEPT !.webgpu = "loaded", !.textToSpeech = TRUE,
                               !.cfgs = TRUE, !.executionProvider = "webgpu",
                               !.badgeText = "WebGPU", !.pc = "canvas"]
              ELSE [app EXCEPT !.webgpu = "loaded", !.textToSpeech = TRUE,
                               !.cfgs = TRUE, !.executionProvider = "webgpu",
                               !.pc = "wasm", !.progress = 0,
                               !.wasm = "loading"]
    /\ AppFrame

\* The WebAssembly load rejects: the error leaves the inner catch and the
\* outer catch shows it.
WasmFails ==
    /\ app.pc = "wasm" /\ app.progress < NumModels
    /\ app' = OuterCatch([app EXCEPT !.wasm = "failed"], "load")
    /\ AppFrame

WasmLoaded ==
    /\ app.pc = "wasm" /\ app.progress = NumModels
    /\ app' = [app EXCEPT !.wasm = "loaded", !.textToSpeech = TRUE,
                          !.cfgs = TRUE, !.pc = "canvas"]
    /\ AppFrame

\* showStatus("Loading default voice style..."); mixer.setCanvas(mixerCanvas):
\* a TypeError when the mixer has no such method.
SetCanvas ==
    /\ app.pc = "canvas"
    /\ app' = IF "setCanvas" \in MixerMethods(app.mixerModule)
              THEN [app EXCEPT !.status = "info", !.pc = "style",
                               !.styleRequested = TRUE]
              ELSE OuterCatch(app, "TypeError")
    /\ AppFrame

\* currentStyle = await loadStyleFromJSON(..); mixer.loadStyle(currentStyle);
\* the success status, the badge, and generateBtn.disabled = false.
StyleLoaded ==
    /\ app.pc = "style" /\ app.styleAvailable
    /\ app' = IF "loadStyle" \in MixerMethods(app.mixerModule)
              THEN [app EXCEPT !.currentStyle = TRUE, !.status = "success",
                               !.generateDisabled = FALSE, !.pc = "done"]
              ELSE OuterCatch([app EXCEPT !.currentStyle = TRUE], "TypeError")
    /\ AppFrame

\* loadStyleFromJSON rejects.
StyleFails ==
    /\ app.pc = "style" /\ ~app.styleAvailable
    /\ app' = OuterCatch(app, "style")
    /\ AppFrame

NextInit ==
    \/ PageLoad
    \/ LoadProgress
    \/ WebGpuFails
    \/ WebGpuLoaded
    \/ WasmFails
    \/ WasmLoaded
    \/ SetCanvas
    \/ StyleLoaded
    \/ StyleFails
SpecInit == InitWith({<<>>}) /\ [][NextInit]_vars

(***************************************************************************)
(* The page's event handlers (main.js, initializeUI and generateSpeech).   *)
(* They are attached before initializeModels starts, so they run at any    *)
(* await of it and of each other.  Every action is one handler, or one     *)
(* continuation of a handler, from an await to the next.  The synthesis    *)
(* model (textToSpeech.call), the style loader and the file reader are     *)
(* outside the repository's files: a synthesis resolves or rejects, a      *)
(* style load resolves or rejects, and a file read delivers JSON that is   *)
(* a voice style or is not.  The page's elements are taken to exist.       *)
(***************************************************************************)
MaxClicks == 3
MaxEvents == 4
MaxTextLen == 2

\* What textInput.value can be: spaces and other characters.
Texts == UNION {[1..n -> {" ", "a"}] : n \in 0..MaxTextLen}

\* String.prototype.trim on such a text.
RECURSIVE TrimStart(_)
TrimStart(t) ==
    IF t # <<>> /\ Head(t) = " " THEN TrimStart(Tail(t)) ELSE t
RECURSIVE TrimEnd(_)
TrimEnd(t) ==
    IF t # <<>> /\ t[Len(t)] = " " THEN TrimEnd(SubSeq(t, 1, Len(t) - 1)) ELSE t
Trim(t) == TrimEnd(TrimStart(t))

\* The buttons of the mixer panel, by the method each one calls.
ButtonOps ==
    {"reset", "mirrorX", "mirrorY", "invertSign", "randomShift", "dspSharpen",
     "dspQuantize", "dspEcho", "dspTremolo", "dspJitter", "addScalar",
     "multiplyScalar", "applySingingPreset"}

\* No handler runs inside the synchronous stretch of initializeModels from
\* the end of a load to the request of the default style.
PageReady == app.pc \notin {"idle", "canvas"}

\* The guard of generateSpeech that returns, "none" when all three pass.
GuardOf(a, text) ==
    IF text = <<>> THEN "text"
    ELSE IF ~a.textToSpeech \/ ~a.cfgs THEN "models"
    ELSE IF ~a.currentStyle THEN "style"
    ELSE "none"

\* A finally block that leaves the button as it is.
GenerateNoFinally(a) == a

\* finally { generateBtn.disabled = false; } of generateSpeech.
GenerateFinally(a) == [a EXCEPT !.generateDisabled = FALSE]

\* The style editor's mixer holds a style: initializeModels or a handler
\* called its loadStyle.
MixerHasStyle == ui.mixerHasStyle \/ (app.pc = "done" /\ app.error = "none")

\* A click on the generate button: generateSpeech up to its await.  A
\* disabled button dispatches no click.  A failing guard shows its error and
\* returns; otherwise the button is disabled, the error box hidden, and
\* textToSpeech.call started.
ClickGenerate ==
    \E text \in Texts :
        /\ PageReady /\ ~app.generateDisabled
        /\ Len(ui.gen) < MaxClicks /\ ui.events < MaxEvents
        /\ LET g == GuardOf(app, Trim(text))
           IN IF g # "none"
              THEN /\ app' = app
                   /\ ui' = [ui EXCEPT
                                !.gen = Append(@, [pc |-> "returned", guard |-> g,
                                                   outcome |-> "none",
                                                   gaveBack |-> FALSE]),
                                !.events = @ + 1,
                                !.errorShown = TRUE]
              ELSE /\ app' = [app EXCEPT !.generateDisabled = TRUE,
                                         !.status = "info"]
                   /\ ui' = [ui EXCEPT
                                !.gen = Append(@, [pc |-> "synth", guard |-> g,
                                                   outcome |-> "none",
                                                   gaveBack |-> FALSE]),
                                !.events = @ + 1,
                                !.errorShown = FALSE,
                                !.synthCalls = @ + 1]
        /\ PageFrame

\* textToSpeech.call resolves: the result is shown, then the finally block.
SynthResolves(k) ==
    /\ PageReady /\ k \in 1..Len(ui.gen) /\ ui.gen[k].pc = "synth"
    /\ app' = GenerateFinally([app EXCEPT !.status = "success"])
    /\ ui' = [ui EXCEPT !.gen[k] = [@ EXCEPT !.pc = "done",
                                             !.outcome = "success",
                                             !.gaveBack = ~app'.generateDisabled]]
    /\ PageFrame

\* textToSpeech.call rejects, or the code after it throws: the catch block
\* shows the error, then the finally block.
SynthRejects(k) ==
    /\ PageReady /\ k \in 1..Len(ui.gen) /\ ui.gen[k].pc = "synth"
    /\ app' = GenerateFinally([app EXCEPT !.status = "error"])
    /\ ui' = [ui EXCEPT !.gen[k] = [@ EXCEPT !.pc = "done",
                                             !.outcome = "error",
                                             !.gaveBack = ~app'.generateDisabled],
                        !.errorShown = TRUE]
    /\ PageFrame

\* A change of the voice-style dropdown, up to its await: "custom" shows the
\* upload field and returns; a style path disables the button and requests
\* the style.
SelectStyle ==
    \E custom \in BOOLEAN :
        /\ PageReady /\ ui.events < MaxEvents
        /\ app' = IF custom THEN app
                  ELSE [app EXCEPT !.generateDisabled = TRUE, !.status = "info"]
        /\ ui' = [ui EXCEPT !.events = @ + 1,
                            !.loads = IF custom THEN @ ELSE @ + 1]
        /\ PageFrame

\* The requested style arrives: currentStyle is assigned, mixer.loadStyle
\* called (a TypeError, caught, when the mixer has no such method), and the
\* button enabled on both paths.
StyleLoadResolves ==
    /\ PageReady /\ ui.loads > 0
    /\ IF "loadStyle" \in MixerMethods(app.mixerModule)
       THEN /\ app' = [app EXCEPT !.currentStyle = TRUE, !.status = "success",
                                  !.generateDisabled = FALSE]
            /\ ui' = [ui EXCEPT !.loads = @ - 1, !.mixerHasStyle = TRUE]
       ELSE /\ app' = [app EXCEPT !.currentStyle = TRUE,
                                  !.generateDisabled = FALSE]
            /\ ui' = [ui EXCEPT !.loads = @ - 1, !.errorShown = TRUE]
    /\ PageFrame

\* loadStyleFromJSON rejects: the catch block shows the error and enables
\* the button.
StyleLoadRejects ==
    /\ PageReady /\ ui.loads > 0
    /\ app' = [app EXCEPT !.generateDisabled = FALSE]
    /\ ui' = [ui EXCEPT !.loads = @ - 1, !.errorShown = TRUE]
    /\ PageFrame

\* A change of the file input: without a file the handler returns, with one
\* it starts a FileReader.
UploadFile ==
    \E file \in BOOLEAN :
        /\ PageReady /\ ui.events < MaxEvents
        /\ ui' = [ui EXCEPT !.events = @ + 1,
                            !.reading = IF file THEN @ + 1 ELSE @]
        /\ app' = app
        /\ PageFrame

\* reader.onload: a voice style is assigned to currentStyle and given to the
\* mixer, and the button enabled; text that is no voice style, or a mixer
\* without loadStyle, ends in the catch block, which enables nothing.
ReaderLoaded ==
    \E valid \in BOOLEAN :
        /\ PageReady /\ ui.reading > 0
        /\ IF ~valid
           THEN /\ app' = [app EXCEPT !.status = "info"]
                /\ ui' = [ui EXCEPT !.reading = @ - 1, !.errorShown = TRUE]
           ELSE IF "loadStyle" \in MixerMethods(app.mixerModule)
           THEN /\ app' = [app EXCEPT !.currentStyle = TRUE,
                                      !.status = "success",
                                      !.generateDisabled = FALSE]
                /\ ui' = [ui EXCEPT !.reading = @ - 1, !.mixerHasStyle = TRUE]
           ELSE /\ app' = [app EXCEPT !.currentStyle = TRUE, !.status = "info"]
                /\ ui' = [ui EXCEPT !.reading = @ - 1, !.errorShown = TRUE]
        /\ PageFrame

\* A click on a button of the mixer panel: applyMixerOp calls the method if
\* the mixer has it and then updateStyleFromMixer, which throws when the
\* mixer has no getStyle and otherwise sets currentStyle to the mixer's
\* style, null when it holds none.  The singing button calls its method
\* without the test.
MixerButton ==
    \E op \in ButtonOps :
        /\ PageReady /\ ui.events < MaxEvents
        /\ app' = IF op \in MixerMethods(app.mixerModule)
                     /\ "getStyle" \in MixerMethods(app.mixerModule)
                  THEN [app EXCEPT !.currentStyle = MixerHasStyle,
                                   !.status = IF op = "applySingingPreset"
                                              THEN "success" ELSE @]
                  ELSE app
        /\ ui' = [ui EXCEPT !.events = @ + 1]
        /\ PageFrame

NextUi ==
    \/ ClickGenerate
    \/ \E k \in 1..MaxClicks : SynthResolves(k)
    \/ \E k \in 1..MaxClicks : SynthRejects(k)
    \/ SelectStyle
    \/ StyleLoadResolves
    \/ StyleLoadRejects
    \/ UploadFile
    \/ ReaderLoaded
    \/ MixerButton
NextPage == NextInit \/ NextUi
SpecPage == InitWith({<<>>}) /\ [][NextPage]_vars

\* An awaited synthesis settles, and the synchronous stretch of
\* initializeModels runs to its end.
FairSpecPage ==
    /\ SpecPage
    /\ WF_vars(SetCanvas)
    /\ \A k \in 1..MaxClicks : WF_vars(SynthResolves(k) \/ SynthRejects(k))

\* The last call of m was a primitive or preset call made with a buffer set.
CalledWithBuffer(m) ==
    last[m].op \in Primitives \cup PresetMethods /\ last[m].hadBuf

\* C1: every primitive leaves the buffer's length as it was, so after any
\* chain of calls getBuffer().length is the length given to setBuffer.
C1_LengthInvariance ==
    \A m \in Mixers :
        /\ CalledWithBuffer(m) => Len(last[m].post) = Len(last[m].pre)
        /\ ~getBuffer(m).isNull => Len(getBuffer(m).items) = setLen[m]

\* C1 witness: a chain of two calls on a non-empty buffer whose last call, a
\* pitch shift of 7 semitones, replaced the samples.
C1_Witness ==
    /\ ncalls = MaxCalls
    /\ last["A"].op = "dspPitchShift" /\ last["A"].a = 7 /\ last["A"].hadBuf
    /\ Len(last["A"].pre) = MaxLen
    /\ last["A"].post # last["A"].pre
    /\ last["B"].op = "none"

\* C2: on a mixer that never got a buffer no call raises an error, every
\* call returns the mixer, and getBuffer() stays null.
C2_NullSafety ==
    \A m \in Mixers :
        setLen[m] = 0 - 1 =>
            /\ getBuffer(m).isNull
            /\ ~last[m].threw
            /\ last[m].op # "none" => last[m].ret = m /\ ~last[m].hadBuf

\* C2 witness: two calls were made on a mixer without a buffer, the last a
\* pitch shift by the semitones that make a set buffer's call fail.
C2_Witness ==
    /\ setLen["A"] = 0 - 1 /\ nsets = 0 /\ ncalls = MaxCalls
    /\ last["A"].op = "dspPitchShift" /\ last["A"].a = 0 - 384
    /\ last["A"].ret = "A"
    /\ last["B"].op = "none"

\* C3: after setBuffer(s) no call changes an element of the caller's s, be
\* it a plain array or a typed array.
C3_CallerSamplesUnchanged == heap["plain"] = given /\ heap["typed"] = given

\* C4: a call on one mixer never changes what getBuffer() of the other
\* mixer returns.
C4_MixersIndependent ==
    [][\A m \in Mixers : who' # m => getBuffer(m)' = getBuffer(m)]_vars

\* The methods that end with "if (maxVal > 1.0) ... /= maxVal".
NormalizedOps == {"dspEcho", "dspReverb", "dspChorus"}

\* What the last call of m, one of NormalizedOps, had accumulated before it
\* normalized.
Accumulated(m) ==
    LET c == last[m]
    IN CASE c.op = "dspEcho" -> EchoAccumulate(c.pre, sampleRate[m], c.a, c.b, c.c)
         [] c.op = "dspReverb" -> ReverbAccumulate(c.pre, sampleRate[m], c.a, c.b)
         [] c.op = "dspChorus" -> ChorusAccumulate(c.pre, sampleRate[m], c.a, c.b)

AllFinite(a) == MaxAbs(a) <= MAXF

\* C5: after dspEcho, dspReverb or dspChorus on finite samples whose sums
\* stayed finite, no sample exceeds 1.0 in magnitude, and the samples are as
\* accumulated when their peak is at most 1.0.
C5_BoundedWhenFinite ==
    \A m \in Mixers :
        (last[m].op \in NormalizedOps /\ last[m].hadBuf /\ AllFinite(last[m].pre)
           /\ AllFinite(Accumulated(m)))
        => /\ MaxAbs(last[m].post) <= SCALE
           /\ MaxAbs(Accumulated(m)) <= SCALE => last[m].post = Accumulated(m)

\* C5 witness: an echo whose sums peaked above 1.0 and were divided down to
\* a peak of 1.0.
C5_Witness ==
    /\ last["A"].op = "dspEcho" /\ last["A"].hadBuf
    /\ MaxAbs(Accumulated("A")) > SCALE /\ AllFinite(Accumulated("A"))
    /\ MaxAbs(last["A"].post) = SCALE

\* C5 as stated: after dspEcho, dspReverb or dspChorus on finite samples of
\* any magnitude no sample exceeds 1.0 in magnitude.
C5_BoundedAlways ==
    \A m \in Mixers :
        (last[m].op \in NormalizedOps /\ last[m].hadBuf /\ AllFinite(last[m].pre))
        => MaxAbs(last[m].post) <= SCALE

\* C6: dspPitchShift raises no exception, whatever the semitones and the
\* buffer, and leaves the length as it was.
C6_PitchShiftNeverThrows ==
    \A m \in Mixers :
        last[m].op = "dspPitchShift" =>
            ~last[m].threw /\ Len(last[m].post) = Len(last[m].pre)

\* C7: dspPitchShift(0) and dspFormantShift(1.0) leave every sample of the
\* buffer as it was.
C7_NeutralIdentity ==
    \A m \in Mixers :
        (\/ last[m].op = "dspPitchShift" /\ last[m].a = 0
         \/ last[m].op = "dspFormantShift" /\ last[m].a = SCALE)
        => ~last[m].threw /\ last[m].post = last[m].pre

\* C7 witness: dspPitchShift(0) was called on the long buffer, which any
\* other semitone value sends through the overlap-add path.
C7_Witness ==
    /\ last["A"].op = "dspPitchShift" /\ last["A"].a = 0 /\ last["A"].hadBuf
    /\ Len(last["A"].pre) >= ShortLimit
    /\ getBuffer("A").items = given

\* C8: applyPreset with a name that is none of the 20 preset names raises no
\* exception, warns, and returns the input's samples.
C8_UnknownPreset ==
    (applied.name # "none" /\ applied.name \notin RegistryValues)
    => applied.warned /\ ~applied.threw /\ applied.output = applied.input

\* C8 witness: applyPreset was called with a label ("Opera") on a non-empty
\* Float32Array and warned.
C8_Witness ==
    /\ applied.name = "Opera" /\ ~applied.isArray
    /\ Len(applied.input) = MaxLen /\ applied.warned

\* C9: the registry has 8 singing values (first OperaSinging) and 12 persona
\* values (first Chipmunk), each of the 20 names a preset method, and
\* applyPreset with one of them does not warn and keeps the length.
C9_RegistryAgrees ==
    /\ Len(getAvailablePresets.singing) = 8
    /\ getAvailablePresets.singing[1].value = "OperaSinging"
    /\ Len(getAvailablePresets.persona) = 12
    /\ getAvailablePresets.persona[1].value = "Chipmunk"
    /\ Cardinality(RegistryValues) = 20
    /\ \A v \in RegistryValues : IsPresetMethod(PresetMethodName(v))
    /\ applied.name \in RegistryValues
        => /\ ~applied.warned /\ ~applied.threw
           /\ Len(applied.output) = Len(applied.input)

\* C9 witness: applyPreset ran the first persona value on a non-empty plain
\* array and returned other samples of the same length.
C9_Witness ==
    /\ applied.name = "Chipmunk" /\ applied.isArray
    /\ Len(applied.input) = MaxLen /\ ~applied.warned
    /\ applied.output # applied.input

\* The last calls of the two mixers were the same preset method on equal
\* samples at the same sample rate.
SamePresetRun ==
    /\ last["A"].op \in PresetMethods /\ last["B"].op = last["A"].op
    /\ last["A"].hadBuf /\ last["B"].hadBuf
    /\ last["A"].pre = last["B"].pre
    /\ sampleRate["A"] = sampleRate["B"]

\* The presets that call dspJitter.
JitterPresets == {"presetAlien", "presetCartoon"}

\* C10: each of the 18 presets other than Alien and Cartoon gives equal
\* outputs on two mixers with the same sample rate and equal inputs.
C10_DeterministicWithoutJitter ==
    (SamePresetRun /\ last["A"].op \notin JitterPresets)
    => last["A"].post = last["B"].post

\* C10 witness: both mixers ran the robot preset on equal non-empty samples
\* and hold equal changed samples.
C10_Witness ==
    /\ SamePresetRun /\ last["A"].op = "presetRobot"
    /\ Len(last["A"].pre) = MaxLen
    /\ last["A"].post = last["B"].post /\ last["A"].post # last["A"].pre

\* C10 as stated: every preset gives equal outputs on two mixers with the
\* same sample rate and equal inputs.
C10_EveryPresetDeterministic ==
    SamePresetRun => last["A"].post = last["B"].post

\* The last call of m was dspTremolo with a buffer set and a depth in [0, 1].
TremoloCalled(m) ==
    /\ last[m].op = "dspTremolo" /\ last[m].hadBuf
    /\ last[m].b >= 0 /\ last[m].b <= SCALE

\* C13: dspTremolo with a depth in [0, 1] multiplies each sample by a factor
\* in [1 - depth, 1]: no sample grows in magnitude, none changes sign, none
\* shrinks below (1 - depth) of itself (up to one rounding step of the
\* grid), and a depth of 0 leaves a buffer of numbers unchanged.  (The
\* statement is about samples that are finite numbers: Infinity * 0 and
\* undefined * 1 are NaN.)
C13_TremoloAttenuates ==
    \A m \in Mixers :
        TremoloCalled(m) =>
            /\ ~last[m].threw
            /\ Len(last[m].post) = Len(last[m].pre)
            /\ \A i \in 1..Len(last[m].pre) :
                  LET in == last[m].pre[i]
                      out == last[m].post[i]
                  IN IsFinite(in) =>
                        /\ IsFinite(out)
                        /\ IAbs(out) <= IAbs(in)
                        /\ out * in >= 0
                        /\ IAbs(out) * SCALE + SCALE
                              >= IAbs(in) * (SCALE - last[m].b)
            /\ last[m].b = 0 /\ (\A i \in 1..Len(last[m].pre) :
                                     last[m].pre[i] # UNDEF)
                  => last[m].post = last[m].pre

\* C13 witness: a tremolo of depth 1 silenced a non-zero sample that a
\* tremolo of depth 0 on the other mixer left as it was.
C13_Witness ==
    /\ TremoloCalled("A") /\ last["A"].b = SCALE
    /\ \E i \in 1..Len(last["A"].pre) :
          last["A"].pre[i] # 0 /\ last["A"].post[i] = 0
    /\ TremoloCalled("B") /\ last["B"].b = 0
    /\ Len(last["B"].pre) = MaxLen /\ last["B"].post = last["B"].pre

JustSet(m) == who = m /\ last[m].op = "setBuffer"

\* The buffer of a mixer constructed now and given the samples setBuffer on m
\* was last given.
FreshBuffer(m) == hist[m].base

\* C16: setBuffer replaces the whole processing state: right after it
\* getBuffer() holds exactly the samples given, as on a fresh mixer,
\* whatever was called on the previous buffer; and no call ever changes a
\* mixer's sample rate.
C16_SetBufferDiscardsHistory ==
    /\ [](\A m \in Mixers :
            JustSet(m) =>
                /\ ~getBuffer(m).isNull
                /\ getBuffer(m).items = FreshBuffer(m)
                /\ Len(getBuffer(m).items) = setLen[m])
    /\ [][sampleRate' = sampleRate]_vars

\* C16 witness: mixer A was given the plain array, changed it in place, and
\* was then given the typed array: it holds the typed array's samples.
C16_Witness ==
    /\ JustSet("A") /\ nsets = MaxSets /\ hist["A"].calls >= 1
    /\ hist["A"].src = "typed" /\ Len(given) = MaxLen
    /\ heap["plain"] # given
    /\ getBuffer("A").items = given
    /\ last["B"].op = "none"

\* A primitive called on mixer m in this step threw.
PrimitiveThrew(m) ==
    /\ ncalls' = ncalls + 1 /\ who' = m
    /\ last'[m].op \in Primitives /\ last'[m].threw

\* The one primitive called on m since its last setBuffer, run on a mixer
\* constructed with m's sample rate and given the same samples.
FreshRun(m) ==
    RunChain(<<hist[m].steps[1].st>>, 1, ChainStart(TRUE, hist[m].base),
             sampleRate[m], hist[m].steps[1].draws)

\* Mixer m had a call that threw, was then given a buffer, and one primitive
\* has been called on it since; nothing was called on the other mixer.
RecoveredCall(m) ==
    /\ hist[m].threw /\ who = m
    /\ last[m].op \in Primitives /\ Len(hist[m].steps) = 1
    /\ \A o \in Mixers \ {m} : hist[o].calls = 0

\* C15: a primitive that throws assigns nothing: the mixer's buffer (the
\* array it refers to and every array's contents) and its sample rate are
\* as before the call; and after a later setBuffer the next primitive gives
\* what it gives on a fresh mixer.
C15_FailuresLocal ==
    /\ [][\A m \in Mixers :
            PrimitiveThrew(m) =>
                /\ audioBuffer' = audioBuffer /\ heap' = heap
                /\ sampleRate' = sampleRate
                /\ last'[m].post = last'[m].pre]_vars
    /\ [](\A m \in Mixers :
            RecoveredCall(m) =>
                /\ last[m].threw = FreshRun(m).threw
                /\ getBuffer(m).items = FreshRun(m).cur)

\* C15 witness: a primitive threw on mixer A with a buffer set; A was then
\* given a buffer again and the next primitive changed it.
C15_Witness ==
    /\ RecoveredCall("A") /\ nsets = MaxSets /\ hist["A"].calls = MaxCalls
    /\ ~last["A"].threw /\ last["A"].post # last["A"].pre
    /\ Len(last["A"].pre) = MaxLen

\* C20: dspFormantShift with a factor above 0 on a non-empty buffer of
\* finite samples returns, and leaves a buffer of the original length in
\* which no entry is undefined or NaN, also when floor(length / factor)
\* is 0.
C20_FormantShiftDefined ==
    \A m \in Mixers :
        /\ last[m].op = "dspFormantShift" /\ last[m].hadBuf
        /\ last[m].a > 0 /\ Len(last[m].pre) > 0 /\ AllFinite(last[m].pre)
        => /\ ~last[m].threw
           /\ Len(last[m].post) = Len(last[m].pre)
           /\ \A i \in 1..Len(last[m].post) :
                 last[m].post[i] \notin {UNDEF, NAN}

\* resample returned for a length new Array accepts.
Resampled == resampleCall.called /\ resampleCall.length # INVALID

\* C19: for a newLength in 0 .. 2^32 - 1 resample returns exactly newLength
\* samples; for a non-empty input it reads only indices inside the input,
\* output[i] lies between input[idx] and input[idx + 1] (interpolation, no
\* extrapolation) where idx = floor(i * len / newLength), and is input[idx]
\* itself when idx + 1 is past the end or the position is a whole number.
C19_ResampleContract ==
    Resampled =>
        LET input == resampleCall.input
            n == resampleCall.length
            output == resampleCall.output
        IN /\ ~resampleCall.threw
           /\ Len(output) = n
           /\ Len(input) > 0 =>
                 \A i \in 0..(n - 1) :
                    LET idx == (i * Len(input)) \div n
                        lo == At(input, idx)
                        hi == At(input, idx + 1)
                    IN /\ ResampleReads(input, n, i) \subseteq 0..(Len(input) - 1)
                       /\ At(output, i) # UNDEF
                       /\ idx + 1 >= Len(input) => At(output, i) = lo
                       /\ (i * Len(input)) % n = 0 => At(output, i) = lo
                       /\ idx + 1 < Len(input) =>
                             \/ lo <= At(output, i) /\ At(output, i) <= hi
                             \/ hi <= At(output, i) /\ At(output, i) <= lo

\* C19 witness: resample stretched the 3-sample pattern to 7 samples: the
\* second output is interpolated strictly between two different input
\* samples and the last output holds the last input sample.
C19_Witness ==
    /\ Resampled /\ resampleCall.input = Pattern(3) /\ resampleCall.length = 7
    /\ At(resampleCall.output, 1) < At(resampleCall.input, 0)
    /\ At(resampleCall.output, 1) > At(resampleCall.input, 1)
    /\ At(resampleCall.output, 6) = At(resampleCall.input, 2)

\* C19 as stated: resample returns exactly newLength samples for every
\* newLength >= 0.
C19_EveryLength ==
    resampleCall.called =>
        ~resampleCall.threw /\ Len(resampleCall.output) = resampleCall.length

\* Mixer m was given the sine and exactly the calls of steps, in that order,
\* were made on it since.
RanOnSine(m, steps) ==
    /\ hist[m].base = Sine /\ ~getBuffer(m).isNull
    /\ Len(hist[m].steps) = Len(steps)
    /\ \A k \in 1..Len(steps) : hist[m].steps[k].st = steps[k]

\* floor(1000 / 2^(7/12)): the length the sine is resampled to.
ShiftedLength == FloorDivRatio(SineLength, Pow2Semitones(7))

\* Every sample of buf from index from on is 0.
ZeroFrom(buf, from) == \A i \in from..(Len(buf) - 1) : At(buf, i) = 0

\* C12: on the 1000-sample 440 Hz sine at 24000 Hz, dspPitchShift(7) then
\* dspReverb(0.5, 0.5) gives a buffer different from dspReverb(0.5, 0.5)
\* then dspPitchShift(7): from index floor(1000 / 2^(7/12)) on the samples
\* are all zero in the second order and not all zero in the first.
C12_OrderMatters ==
    \A a, b \in Mixers :
        /\ RanOnSine(a, <<PitchShift7, ReverbHalf>>)
              => ~ZeroFrom(getBuffer(a).items, ShiftedLength)
        /\ RanOnSine(b, <<ReverbHalf, PitchShift7>>)
              => ZeroFrom(getBuffer(b).items, ShiftedLength)
        /\ RanOnSine(a, <<PitchShift7, ReverbHalf>>)
              /\ RanOnSine(b, <<ReverbHalf, PitchShift7>>)
              => getBuffer(a).items # getBuffer(b).items

\* C12 witness: mixer A ran the first order and mixer B the second on the
\* sine, and the shifted length is inside the buffer.
C12_Witness ==
    /\ RanOnSine("A", <<PitchShift7, ReverbHalf>>)
    /\ RanOnSine("B", <<ReverbHalf, PitchShift7>>)
    /\ ShiftedLength > 0 /\ ShiftedLength < SineLength
    /\ Len(getBuffer("A").items) = SineLength
    /\ Len(getBuffer("B").items) = SineLength

\* The same samples were given to mixers a and b, not as one shared plain
\* array, and the same primitive calls (arguments and random values) have
\* been made on both since, on a through presets and on b one by one.
SameCalls(a, b) ==
    /\ hist[a].src # "none" /\ hist[b].src # "none"
    /\ ~(hist[a].src = "plain" /\ hist[b].src = "plain")
    /\ hist[a].base = hist[b].base
    /\ sampleRate[a] = sampleRate[b]
    /\ hist[a].steps = hist[b].steps /\ hist[a].steps # <<>>
    /\ last[a].op \in PresetMethods /\ last[b].op \in Primitives

\* C11: a preset leaves the mixer as its primitives, called one by one in
\* the listed order, leave it: presetRobot is dspQuantize(12),
\* dspEcho(50, 0.3, 2), dspFormantShift(0.95), and whenever the primitive
\* calls made through one or two presets on one mixer have been made one by
\* one on another mixer given the same samples, the two buffers are equal.
C11_PresetIsItsPrimitives ==
    /\ presetRobot = <<Step("dspQuantize", 12, 0, 0),
                       Step("dspEcho", 50, Frac(3, 10), 2),
                       Step("dspFormantShift", Frac(95, 100), 0, 0)>>
    /\ SameCalls("A", "B") =>
          /\ getBuffer("A").items = getBuffer("B").items
          /\ hist["A"].threw = hist["B"].threw

\* C11 witness: presetRobot and then presetWhisper were called on mixer A,
\* their six primitives one by one on mixer B, and both buffers hold the
\* same samples, which are not the ones given.
C11_Witness ==
    /\ SameCalls("A", "B")
    /\ hist["A"].calls = MaxPresetCalls /\ last["A"].op = "presetWhisper"
    /\ hist["B"].calls = Len(presetRobot) + Len(presetWhisper)
    /\ [k \in 1..Len(hist["B"].steps) |-> hist["B"].steps[k].st]
          = presetRobot \o presetWhisper
    /\ Len(hist["A"].base) = MaxLen
    /\ getBuffer("A").items = getBuffer("B").items
    /\ getBuffer("A").items # hist["A"].base

\* C18: in the style editor's mixer reset() makes currentTtl equal, entry
\* for entry, to the style_ttl last loaded or mixed, whatever latent
\* operations were called since; and originalTtl and currentDp always hold
\* what was loaded or mixed: no latent operation (and no reset) changes them.
C18_ResetRestores ==
    /\ [](latent.hasOrig =>
            /\ latent.orig = latent.loaded
            /\ latent.dp = latent.loadedDp
            /\ latent.op = "reset" => latent.hasCur /\ latent.cur = latent.loaded)
    /\ [][latent'.op \in LatentOps \cup {"reset"} =>
            /\ latent'.orig = latent.orig /\ latent'.hasOrig = latent.hasOrig
            /\ latent'.dp = latent.dp]_vars

\* C18 witness: after a load and MaxLatentOps latent operations, the last
\* one in place, currentTtl differed from the original; reset made it
\* equal again.  (The state after the reset.)
C18_Witness ==
    /\ latent.op = "reset" /\ latent.hasOrig /\ latent.nops = MaxLatentOps
    /\ latent.undone
    /\ latent.cur = latent.loaded
    /\ latent.loaded = VoiceStyle(1).ttl

\* C17: initializeModels tries WebGPU first and loads with WebAssembly only
\* after the WebGPU load failed; when a load succeeded and the default
\* voice style can be loaded it ends with textToSpeech set and the generate
\* button enabled; when the WebAssembly load failed too it ends with an
\* error status, textToSpeech unset and the generate button still disabled.
\* (On a page that has its badge element.)
C17_WasmFallback ==
    app.hasBadge =>
        /\ app.wasm # "untried" => app.webgpu = "failed"
        /\ app.pc = "done" =>
              /\ ("loaded" \in {app.webgpu, app.wasm}) /\ app.styleAvailable
                    => /\ app.textToSpeech
                       /\ ~app.generateDisabled
                       /\ app.status = "success"
              /\ app.wasm = "failed"
                    => /\ app.status = "error"
                       /\ ~app.textToSpeech
                       /\ app.generateDisabled

\* The last call was a dspPitchShift with semitones other than 0, on mixer m
\* holding a buffer of fewer than ShortLimit samples.
ShortShifted(m) ==
    /\ who = m
    /\ last[m].op = "dspPitchShift" /\ last[m].a # 0
    /\ last[m].hadBuf /\ Len(last[m].pre) < ShortLimit

\* C21: a dspPitchShift by semitones other than 0 on a buffer of L < 4096
\* samples that returns leaves a buffer of length L which is R =
\* resample(buffer, floor(L / ratio)), ratio = 2^(semitones/12), cut to L
\* samples when R is longer (shifting down) and followed by zeros from
\* len(R) on when it is shorter (shifting up); no sample is rescaled.  (The
\* call does not return exactly when floor(L / ratio) is no array length.)
C21_ShortPitchShift ==
    \A m \in Mixers :
        ShortShifted(m) =>
            LET pre == last[m].pre
                L == Len(pre)
                newLength == FloorDivRatio(L, Pow2Semitones(last[m].a))
            IN /\ last[m].threw <=> newLength = INVALID
               /\ ~last[m].threw =>
                     LET R == resample(pre, newLength)
                     IN /\ Len(R) = newLength
                        /\ getBuffer(m).items = last[m].post
                        /\ Len(last[m].post) = L
                        /\ \A i \in 0..(L - 1) :
                              At(last[m].post, i) =
                                  IF i < Len(R) THEN At(R, i) ELSE 0

\* C21 happens: a five-sample buffer shifted up by 7 semitones keeps three
\* resampled samples and two zeros, with a peak below 1, and the other
\* mixer's, shifted down by 5 semitones, holds the first five of six
\* resampled samples.
C21_Witness ==
    \E m \in Mixers : \E n \in Mixers \ {m} :
        /\ ShortShifted(m) /\ ~last[m].threw
        /\ Len(last[m].pre) = MaxEffectLen
        /\ last[m].a = 7
        /\ FloorDivRatio(MaxEffectLen, Pow2Semitones(7)) = 3
        /\ At(last[m].post, 2) # 0
        /\ At(last[m].post, 3) = 0 /\ At(last[m].post, 4) = 0
        /\ MaxAbs(last[m].post) < SCALE
        /\ last[n].op = "dspPitchShift" /\ last[n].a = 0 - 5
        /\ last[n].hadBuf /\ ~last[n].threw
        /\ FloorDivRatio(MaxEffectLen, Pow2Semitones(0 - 5)) = 6
        /\ At(last[n].post, 4) # 0

\* The last call was a dspPitchShift with semitones other than 0 that
\* returned, on mixer m holding a buffer of ShortLimit samples or more.
LongShifted(m) ==
    /\ who = m
    /\ last[m].op = "dspPitchShift" /\ last[m].a # 0
    /\ last[m].hadBuf /\ Len(last[m].pre) >= ShortLimit
    /\ ~last[m].threw

\* The output of the frame loop of the long path, before its normalization.
OverlapAdded(input, semitones) ==
    OverlapAdd(input, Pow2Semitones(semitones), hanningWindow(windowSize),
               FloorMulRatio(windowSize, Pow2Semitones(semitones)), 0,
               NewArray(Len(input), LAMBDA k : 0))

C22_SilenceReached ==
    /\ LongShifted("A")
    /\ \E i \in 0..(Len(last["A"].pre) - 1) : At(last["A"].pre, i) # 0
    /\ \A i \in 0..(Len(last["A"].post) - 1) : At(last["A"].post, i) = 0

\* The last call was a dspEcho on mixer m holding a buffer.
Echoed(m) == who = m /\ last[m].op = "dspEcho" /\ last[m].hadBuf

\* input[k] plus the echoes of the repeats 1 .. r that reach index k, added
\* in the order of the repeats: decay^r * input[k - r * d] when r * d <= k.
RECURSIVE EchoSum(_, _, _, _, _)
EchoSum(input, k, d, decay, r) ==
    IF r = 0 THEN At(input, k)
    ELSE LET sum == EchoSum(input, k, d, decay, r - 1)
         IN IF r * d <= k
            THEN Add(sum, Mul(At(input, k - r * d), MathPow(decay, r)))
            ELSE sum

\* C23: with d = floor(sampleRate * delayMs / 1000) >= 0, the accumulator of
\* dspEcho before its normalization has the length of the input and holds
\* at index k the input sample plus, for each repeat r with r * d <= k,
\* decay^r times the input sample at k - r * d (echoes of echoes are not
\* added, echoes past the end are dropped); the buffer after the call is
\* that accumulator, divided by its peak when the peak exceeds 1, and so
\* the samples below d are the input's when the peak is at most 1.
C23_EchoReadsInput ==
    \A m \in Mixers :
        Echoed(m) =>
            LET pre == last[m].pre
                post == last[m].post
                d == DelaySamples(sampleRate[m], last[m].a)
                acc == NewArray(Len(pre), LAMBDA k :
                           EchoSum(pre, k, d, last[m].b, last[m].c))
                peak == MaxAbs(acc)
            IN /\ d >= 0
               /\ EchoAccumulate(pre, sampleRate[m], last[m].a, last[m].b,
                                 last[m].c) = acc
               /\ getBuffer(m).items = post
               /\ Len(post) = Len(pre)
               /\ IF Gt(peak, SCALE)
                  THEN \A k \in 0..(Len(pre) - 1) :
                           At(post, k) = Div(At(acc, k), peak)
                  ELSE /\ post = acc
                       /\ \A k \in 0..(IMin(d, Len(pre)) - 1) :
                             At(post, k) = At(pre, k)

\* C23 happens: at 8 Hz dspEcho(200, 0.5, 3) has d = 1, and on the samples
\* 0.5, -1, 0.3, 0, -0.25 the sample at 3 gets the three echoes of the input
\* (0.15 - 0.25 + 0.063) and nothing else, the sample at 2 gets two echoes,
\* the third falling before the start; the peak stays below 1 and the first
\* sample is the input's.
C23_Witness ==
    \E m \in Mixers :
        /\ Echoed(m)
        /\ last[m].pre = Pattern(MaxEffectLen)
        /\ DelaySamples(sampleRate[m], last[m].a) = 1 /\ last[m].c = 3
        /\ At(last[m].post, 0) = Frac(1, 2)
        /\ At(last[m].post, 2) = 0 - Frac(75, 1000)
        /\ At(last[m].post, 3) = Frac(3, 20) - Frac(1, 4) + Frac(63, 1000)

\* The last call was a dspSharpen on mixer m holding a buffer.
Sharpened(m) == who = m /\ last[m].op = "dspSharpen" /\ last[m].hadBuf

\* C24: after dspSharpen(amount) the buffer has the length it had, its first
\* and last samples are the input's, every sample i between them is
\* input[i] + amount * (input[i] - (input[i-1] + input[i+1]) / 2) with the
\* neighbours read before the call, and a buffer of fewer than three
\* samples is unchanged.
C24_SharpenFromOriginal ==
    \A m \in Mixers :
        Sharpened(m) =>
            LET pre == last[m].pre
                post == last[m].post
                L == Len(pre)
            IN /\ ~last[m].threw
               /\ getBuffer(m).items = post
               /\ Len(post) = L
               /\ L >= 1 => /\ At(post, 0) = At(pre, 0)
                            /\ At(post, L - 1) = At(pre, L - 1)
               /\ L <= 2 => post = pre
               /\ \A i \in 1..(L - 2) :
                     At(post, i) =
                         Add(At(pre, i),
                             Mul(Sub(At(pre, i),
                                     Div(Add(At(pre, i - 1), At(pre, i + 1)),
                                         Num(2))),
                                 last[m].a))

\* C24 happens: dspSharpen(0.3) on 0.5, -1, 0.3, 0, -0.25 gives -1.42 at 1
\* and, from the original -1 at its left (not from -1.42), 0.54 at 2; the
\* edges stay.
C24_Witness ==
    \E m \in Mixers :
        /\ Sharpened(m)
        /\ last[m].pre = Pattern(MaxEffectLen) /\ last[m].a = Frac(3, 10)
        /\ At(last[m].post, 0) = Frac(1, 2)
        /\ At(last[m].post, 1) = 0 - Frac(142, 100)
        /\ At(last[m].post, 2) = Frac(54, 100)
        /\ At(last[m].post, 4) = 0 - Frac(1, 4)

\* The last call was a dspQuantize with positive levels on mixer m holding a
\* buffer.
Quantized(m) ==
    /\ who = m
    /\ last[m].op = "dspQuantize" /\ last[m].a > 0
    /\ last[m].hadBuf

\* C25: after dspQuantize(levels), levels a positive whole number, every
\* sample is Math.round(sample * levels) / levels; when the rounded product
\* is finite it is a whole multiple of 1 / levels at most 1 / (2 * levels)
\* away from the sample before the call, both up to the rounding of the
\* number grid (half a grid step per division and per Math.round); and
\* quantizing the result again with the same levels changes no sample.
C25_QuantizeIdempotent ==
    \A m \in Mixers :
        Quantized(m) =>
            LET pre == last[m].pre
                post == last[m].post
                levels == last[m].a
            IN /\ ~last[m].threw
               /\ getBuffer(m).items = post
               /\ Len(post) = Len(pre)
               /\ \A i \in 0..(Len(pre) - 1) :
                     /\ At(post, i) =
                           Div(MathRound(Mul(At(pre, i), Num(levels))),
                               Num(levels))
                     /\ IsFinite(MathRound(Mul(At(pre, i), Num(levels)))) =>
                           /\ IsFinite(At(post, i))
                           /\ 2 * IAbs(At(post, i) * levels
                                       - MathRound(At(post, i) * levels))
                                 <= levels
                           /\ 2 * levels * IAbs(At(post, i) - At(pre, i))
                                 <= SCALE + levels + 1
               /\ Quantize(post, levels) = post

\* C25 happens: dspQuantize(8) called twice in a row on 0.5, -1, 0.3, 0,
\* -0.25; the first call moved 0.3 to 0.25 and the second changed nothing.
C25_Witness ==
    \E m \in Mixers :
        /\ Quantized(m) /\ last[m].a = 8
        /\ hist[m].base = Pattern(MaxEffectLen)
        /\ Len(hist[m].steps) = 2
        /\ hist[m].steps[1].st = Step("dspQuantize", 8, 0, 0)
        /\ hist[m].steps[2].st = Step("dspQuantize", 8, 0, 0)
        /\ last[m].pre =
              <<Frac(1, 2), 0 - SCALE, Frac(1, 4), 0, 0 - Frac(1, 4)>>
        /\ last[m].post = last[m].pre

\* The last call was a dspJitter(0) on mixer m holding a buffer.
JitteredFlat(m) ==
    /\ who = m
    /\ last[m].op = "dspJitter" /\ last[m].a = 0
    /\ last[m].hadBuf

\* C26: dspJitter(0), whatever Math.random() returns, is not the identity:
\* the windows of 512 samples start every 256 samples and are summed, so
\* the sample at k is the input's for k < 256 and twice the input's for
\* every k >= 256.
C26_JitterOverlapGain ==
    \A m \in Mixers :
        JitteredFlat(m) =>
            LET pre == last[m].pre
                post == last[m].post
            IN /\ ~last[m].threw
               /\ getBuffer(m).items = post
               /\ Len(post) = Len(pre)
               /\ \A k \in 0..(Len(pre) - 1) :
                     At(post, k) =
                         IF k < jitterWindow \div 2 THEN At(pre, k)
                         ELSE Mul(Num(2), At(pre, k))

\* C26 happens: on MidLen samples (three windows) the sample at 255 is the
\* input's 0.5, the one at 256 is -2 for the input's -1, and the last one,
\* in the third window, is -0.5 for the input's -0.25.
C26_Witness ==
    \E m \in Mixers :
        /\ JitteredFlat(m)
        /\ last[m].pre = Pattern(MidLen)
        /\ At(last[m].post, 255) = Frac(1, 2)
        /\ At(last[m].post, 256) = 0 - Num(2)
        /\ At(last[m].post, MidLen - 1) = 0 - Frac(1, 2)

\* The last call was a dspChorus with 0 or 1 voices on mixer m holding a
\* buffer.
ChorusedSolo(m) ==
    /\ who = m
    /\ last[m].op = "dspChorus" /\ last[m].a \in {0, 1}
    /\ last[m].hadBuf

\* C27: dspChorus(voices, spread) with voices 0 or 1 adds no voice: it does
\* not throw, its accumulator is the copy of the input, the buffer after
\* the call equals the input when the input's peak is at most 1 and the
\* input divided by its peak otherwise, and a buffer of finite samples
\* stays finite.
C27_ChorusWithoutVoices ==
    \A m \in Mixers :
        ChorusedSolo(m) =>
            LET pre == last[m].pre
                post == last[m].post
                peak == MaxAbs(pre)
            IN /\ ~last[m].threw
               /\ getBuffer(m).items = post
               /\ ChorusAccumulate(pre, sampleRate[m], last[m].a, last[m].b)
                     = pre
               /\ Len(post) = Len(pre)
               /\ IF Gt(peak, SCALE)
                  THEN \A i \in 0..(Len(pre) - 1) :
                           At(post, i) = Div(At(pre, i), peak)
                  ELSE post = pre
               /\ (\A i \in 0..(Len(pre) - 1) : IsFinite(At(pre, i))) =>
                     (\A i \in 0..(Len(post) - 1) : IsFinite(At(post, i)))

\* C27 happens: dspChorus(0, 20) on the loud buffer 2, 0.5, -1 left it
\* divided by its peak, and dspChorus(1, 20) on the result, whose peak is
\* 1, left it as it was.
C27_Witness ==
    \E m \in Mixers :
        /\ ChorusedSolo(m) /\ last[m].a = 1
        /\ hist[m].base = Loud
        /\ Len(hist[m].steps) = 2
        /\ hist[m].steps[1].st = Step("dspChorus", 0, 20, 0)
        /\ last[m].pre = <<Num(1), Frac(1, 4), 0 - Frac(1, 2)>>
        /\ last[m].post = last[m].pre

\* A frame of the long pitch shift has been processed.
FrameDone == frames.nframes > 0 /\ frames.pc # "threw"

\* C28: in the long pitch shift (buffers of 4096 samples or more, window
\* 2048, hop 512), for every frame of every ratio the reads input[i + j],
\* j < 2048, stay below the length; the writes output[outPos + j] are at
\* indices from 0 to below the length, a frame whose outPos is at or past
\* the end writing nothing; and the window index min(floor(j / ratio),
\* 2047) of every write lies in 0 .. 2047.
C28_OverlapAddInBounds ==
    FrameDone =>
        LET ratio == Pow2Semitones(frames.semitones)
        IN /\ frames.len >= ShortLimit
           /\ \A j \in 0..(windowSize - 1) :
                 frames.at + j >= 0 /\ frames.at + j < frames.len
           /\ frames.outPos >= 0
           /\ frames.outPos >= frames.len => frames.n <= 0
           /\ \A j \in 0..(frames.n - 1) :
                 /\ frames.outPos + j >= 0
                 /\ frames.outPos + j < frames.len
                 /\ j < frames.newSize
                 /\ WindowIdx(j, ratio) >= 0
                 /\ WindowIdx(j, ratio) <= windowSize - 1

\* C28 happens: a frame after the first was resampled to more samples than
\* fit between its outPos and the end, and only those that fit were added.
C28_Witness ==
    /\ FrameDone /\ frames.nframes > 1
    /\ frames.outPos > 0
    /\ frames.n > 0 /\ frames.n < frames.newSize
    /\ frames.outPos + frames.n = frames.len

\* The other case of C28 is reached: a frame whose outPos is past the end
\* adds nothing.
C28_PastTheEnd ==
    FrameDone /\ frames.outPos >= frames.len /\ frames.n <= 0

\* Synthesis k is in flight: it awaits textToSpeech.call.
InFlight(k) == k \in 1..Len(ui.gen) /\ ui.gen[k].pc = "synth"

\* C29: from generateSpeech disabling the generate button to its finally
\* block the button stays disabled, whatever other handlers run, so at most
\* one synthesis is in flight.
C29_OneSynthesisInFlight ==
    /\ \A k \in 1..MaxClicks : InFlight(k) => app.generateDisabled
    /\ Cardinality({k \in 1..MaxClicks : InFlight(k)}) <= 1

\* Two syntheses are in flight at once.
TwoInFlight == Cardinality({k \in 1..MaxClicks : InFlight(k)}) = 2

\* Run k of generateSpeech ended, its finally block leaving the button enabled.
GaveBack(k) ==
    k \in 1..Len(ui.gen) /\ ui.gen[k].pc = "done" /\ ui.gen[k].gaveBack

\* A step is a run of generateSpeech that returns at a guard.
GuardReturns ==
    /\ Len(ui'.gen) = Len(ui.gen) + 1
    /\ ui'.gen[Len(ui'.gen)].pc = "returned"

\* C30: a run of generateSpeech that passes its guards and disables the
\* button enables it again, after a synthesis that succeeded and after one
\* that threw; a run that fails a guard shows an error, starts no synthesis
\* and leaves the button as it was.
C30_ButtonGivenBack ==
    /\ \A k \in 1..MaxClicks :
           InFlight(k) ~> GaveBack(k)
    /\ [][/\ GuardReturns =>
                /\ ui'.errorShown
                /\ ui'.synthCalls = ui.synthCalls
                /\ app'.generateDisabled = app.generateDisabled
          /\ \A k \in 1..Len(ui.gen) :
                ui.gen[k].pc = "returned" => ui'.gen[k] = ui.gen[k]]_vars

\* One run returned at a guard with its error shown, and two passed the
\* guards, one ending in success and one in an error, both with the button
\* enabled again.
C30_Witness ==
    /\ \E i, j, k \in 1..Len(ui.gen) :
          /\ ui.gen[i].pc = "returned" /\ ui.gen[i].guard = "text"
          /\ GaveBack(j) /\ ui.gen[j].outcome = "success"
          /\ GaveBack(k) /\ ui.gen[k].outcome = "error"
    /\ ui.errorShown /\ ui.synthCalls = 2
    /\ ~app.generateDisabled

\* Two syntheses are in flight on the page whose mixer is the audio mixer.
TwoInFlightAudio == TwoInFlight /\ app.mixerModule = "web/mixer.js"

====
